---- MODULE Spec2Model ----
(***************************************************************************)
(* A model of the ee-mail gateway: the per-domain credential resolver and  *)
(* its cache (config.js), the outbound dispatcher (server.js POST /send,   *)
(* email-service.js), and the inbound webhook handler with its detached    *)
(* content fetch (server.js POST /webhook, resend-client.js, database.js). *)
(***************************************************************************)
EXTENDS Integers, Sequences, FiniteSets, TLC

(***************************************************************************)
(* Bounds of the model.                                                    *)
(***************************************************************************)
MaxResolutions == 2    \* calls of getApiKeyForDomain, which may all overlap
MaxAdminOps == 1       \* admin writes to api_keys
MaxTicks == 1          \* clock advances
StartTime == 100000    \* Date.now() when the process starts (ms)

(***************************************************************************)
(* JavaScript values.                                                      *)
(***************************************************************************)
Undefined == "<undefined>"
Truthy(v) == v # Undefined /\ v # ""
\* a || b
Or(a, b) == IF Truthy(a) THEN a ELSE b

\* obj[k] on a plain mapping
Get(m, k) == IF k \in DOMAIN m THEN m[k] ELSE Undefined

EmptyMap == [k \in {} |-> Undefined]

\* a lower-casing that leaves every string as it is
ToLower_AsGiven(s) == s

\* String.prototype.toLowerCase on the domain strings of the model
ToLower(s) == IF s = "A.COM" THEN "a.com" ELSE IF s = "B.COM" THEN "b.com" ELSE s

Dom == {"a.com", "b.com"}
DomainInputs == {Undefined, "A.COM", "b.com"}
AdminDomains == {"A.COM", "b.com"}
PostKeys == {"key_db2"}

VARIABLES
  \* configuration, fixed at start-up
  processEnv,           \* process.env.EMAIL_DOMAINS and EMAIL_DOMAIN, and whether config.js has run
  RESEND_API_KEY,       \* process.env.RESEND_API_KEY
  ENV_API_KEYS,         \* parseApiKeysFromEnv(EMAIL_DOMAINS)
  EMAIL_DOMAINS,        \* parseDomains()
  DEFAULT_SENDERS,      \* parseDefaultSenders(EMAIL_DOMAINS)
  pool,                 \* database.js: pool !== null
  \* credential store and cache
  api_keys,             \* table api_keys: domain -> [api_key, is_active]
  dbApiKeysCache,
  dbApiKeysCacheTime,
  now,                  \* Date.now()
  ticks,
  res,                  \* the calls of getApiKeyForDomain
  admin,                \* the admin handler in flight
  adminOps,
  ret,                  \* the call that returned last
  fresh,                \* domains with a completed admin write and no resolution started since
  \* outbound dispatcher
  send,                 \* the POST /send handler
  providerCalls,        \* the requests made to RESEND_API_URL
  emails,               \* table emails
  batch,                \* the POST /send-batch handler
  item,                 \* the sendEmail call of each batch item
  settledOrder,         \* the items in the order their promises settled
  \* inbound webhook handler
  hook,                 \* the POST /webhook handlers in flight
  fetchRun,             \* the detached content fetch each handler scheduled
  webhooks,             \* table webhooks
  received_emails,      \* table received_emails
  arrivals,             \* notifications received so far
  firstArrival,         \* email_id -> the first notification that arrived for it
  firstWrite,           \* email_id -> the first stub write the store applied for it
  contentWrites         \* email_id -> the content updates the store applied to it

credVars == <<api_keys, dbApiKeysCache, dbApiKeysCacheTime, now, ticks, res, admin,
              adminOps, ret, fresh>>
confVars == <<processEnv, RESEND_API_KEY, ENV_API_KEYS, EMAIL_DOMAINS, DEFAULT_SENDERS, pool>>
sendVars == <<send, providerCalls, emails>>
batchVars == <<batch, item, settledOrder>>
inboundVars == <<hook, fetchRun, webhooks, received_emails, arrivals, firstArrival, firstWrite,
                 contentWrites>>
vars == <<confVars, credVars, sendVars, batchVars, inboundVars>>

(***************************************************************************)
(* config.js                                                               *)
(***************************************************************************)
API_KEYS_CACHE_TTL == 60000

NullCache == [null |-> TRUE]
LoadError == [error |-> TRUE]

\* an environment variable: unset, or a string given as its split(',') parts
Unset == [set |-> FALSE, parts |-> <<>>]
Str(parts) == [set |-> TRUE, parts |-> parts]
\* a string is truthy when it is set and not empty
TruthyStr(v) == v.set /\ v.parts # <<"">>

\* d.trim().toLowerCase() on the parts of the model
TrimLower(part) ==
  CASE part = " A.COM " -> "a.com"
    [] part = " " -> ""
    [] OTHER -> part

\* parseDomains: EMAIL_DOMAINS || EMAIL_DOMAIN, the built-in domain when that
\* is falsy, else its parts trimmed, lower-cased and the empty ones dropped
parseDomains(env) ==
  LET domainsEnv == IF TruthyStr(env.EMAIL_DOMAINS) THEN env.EMAIL_DOMAINS ELSE env.EMAIL_DOMAIN
  IN IF ~TruthyStr(domainsEnv) THEN <<"eternalgy.me">>
     ELSE SelectSeq([i \in DOMAIN domainsEnv.parts |-> TrimLower(domainsEnv.parts[i])],
                    LAMBDA d : d # "")

\* the environment that configures the registry given
EnvFor(domains) == [EMAIL_DOMAINS |-> Str(domains), EMAIL_DOMAIN |-> Unset, loaded |-> TRUE]

\* const DEFAULT_SENDERS = parseDefaultSenders(domains), given the explicit pairs
parseDefaultSenders(domains, pairs) ==
  [d \in {domains[i] : i \in DOMAIN domains} |->
     IF Truthy(Get(pairs, d)) THEN pairs[d] ELSE "noreply@" \o d]

\* parseApiKeysFromEnv: the explicit pairs, then every registry domain filled
\* with the default key
parseApiKeysFromEnv(domains, pairs, defaultApiKey) ==
  [d \in DOMAIN pairs \cup {domains[i] : i \in DOMAIN domains} |->
     IF Truthy(Get(pairs, d)) THEN pairs[d] ELSE defaultApiKey]

\* database.js getApiKeysMap: the active rows, or {} without a pool
getApiKeysMap ==
  IF ~pool THEN EmptyMap
  ELSE [d \in {x \in DOMAIN api_keys : api_keys[x].is_active} |-> api_keys[d].api_key]

\* a fallback that also tries the primary domain's environment key
EnvFallback_Primary(domainLower) ==
  Or(Get(ENV_API_KEYS, domainLower), Or(Get(ENV_API_KEYS, EMAIL_DOMAINS[1]), RESEND_API_KEY))

\* return config.ENV_API_KEYS[domainLower] || config.RESEND_API_KEY
EnvFallback(domainLower) == Or(Get(ENV_API_KEYS, domainLower), RESEND_API_KEY)

\* if (dbApiKeysCache[domainLower]) return it, else the fallback
LookupIn(map, domainLower) == Or(Get(map, domainLower), EnvFallback(domainLower))

\* a cache that expires as soon as its age reaches the TTL
NeedsLoad_AtTTL(t) == dbApiKeysCache = NullCache \/ (t - dbApiKeysCacheTime) >= API_KEYS_CACHE_TTL

\* !dbApiKeysCache || (now - dbApiKeysCacheTime) > API_KEYS_CACHE_TTL
NeedsLoad(t) == dbApiKeysCache = NullCache \/ (t - dbApiKeysCacheTime) > API_KEYS_CACHE_TTL

IdleRes == [pc |-> "idle", domain |-> Undefined, now |-> 0, snap |-> EmptyMap,
            firstAfter |-> FALSE, undisturbed |-> FALSE]
DoneRes == [IdleRes EXCEPT !.pc = "done"]
NoReturn == [domain |-> Undefined, result |-> Undefined, how |-> "none",
             firstAfter |-> FALSE, undisturbed |-> FALSE, age |-> 0]

Resolvers == 1..MaxResolutions

\* what a call returns, as the caller sees it
Return(r, d, value, how) ==
  [domain |-> d, result |-> value, how |-> how,
   firstAfter |-> r.firstAfter, undisturbed |-> r.undisturbed, age |-> 0]

\* getApiKeyForDomain up to its first suspension: the null-domain return, the
\* cache check, and on a valid cache the lookup and return
ResolveStart(r, din) ==
  /\ res[r].pc = "idle"
  /\ \A q \in Resolvers : q < r => res[q].pc # "idle"
  /\ fresh' = IF Truthy(din) THEN fresh \ {ToLower(din)} ELSE fresh
  /\ LET me == [IdleRes EXCEPT !.domain = din,
                               !.firstAfter = Truthy(din) /\ ToLower(din) \in fresh,
                               !.undisturbed = admin.pc = "idle"]
     IN IF ~Truthy(din)
          THEN /\ ret' = Return(me, din, RESEND_API_KEY, "default")
               /\ res' = [res EXCEPT ![r] = DoneRes]
          ELSE IF NeedsLoad(now)
            THEN /\ res' = [res EXCEPT ![r] = [me EXCEPT !.pc = "loading", !.now = now]]
                 /\ UNCHANGED ret
            ELSE /\ ret' = [Return(me, din, LookupIn(dbApiKeysCache, ToLower(din)), "hit")
                              EXCEPT !.age = now - dbApiKeysCacheTime]
                 /\ res' = [res EXCEPT ![r] = DoneRes]
  /\ UNCHANGED <<api_keys, dbApiKeysCache, dbApiKeysCacheTime, now, ticks, admin, adminOps>>
  /\ UNCHANGED confVars

\* the store executes the query of getApiKeysMap, or the query fails
StoreRead(r, ok) ==
  /\ res[r].pc = "loading"
  /\ ok \/ pool
  /\ res' = [res EXCEPT ![r].pc = "loaded",
                        ![r].snap = IF ok THEN getApiKeysMap ELSE LoadError]
  /\ UNCHANGED <<api_keys, dbApiKeysCache, dbApiKeysCacheTime, now, ticks, admin,
                 adminOps, fresh, ret>>
  /\ UNCHANGED confVars

\* a load that adds the map just read to the keys the cache already holds
LoadSuccess_Merges(r) ==
  /\ res[r].pc = "loaded"
  /\ res[r].snap # LoadError
  /\ dbApiKeysCache' =
       IF dbApiKeysCache = NullCache THEN res[r].snap
       ELSE [d \in DOMAIN dbApiKeysCache \cup DOMAIN res[r].snap |->
               IF d \in DOMAIN res[r].snap THEN res[r].snap[d] ELSE dbApiKeysCache[d]]
  /\ dbApiKeysCacheTime' = res[r].now
  /\ ret' = Return(res[r], res[r].domain,
                   LookupIn(res[r].snap, ToLower(res[r].domain)), "loaded")
  /\ res' = [res EXCEPT ![r] = DoneRes]
  /\ UNCHANGED <<api_keys, now, ticks, admin, adminOps, fresh>>
  /\ UNCHANGED confVars

\* a load that leaves alone a cache loaded at a later time than its own start
LoadSuccess_KeepsNewest(r) ==
  /\ res[r].pc = "loaded"
  /\ res[r].snap # LoadError
  /\ IF dbApiKeysCache # NullCache /\ dbApiKeysCacheTime > res[r].now
       THEN UNCHANGED <<dbApiKeysCache, dbApiKeysCacheTime>>
       ELSE dbApiKeysCache' = res[r].snap /\ dbApiKeysCacheTime' = res[r].now
  /\ ret' = Return(res[r], res[r].domain,
                   LookupIn(res[r].snap, ToLower(res[r].domain)), "loaded")
  /\ res' = [res EXCEPT ![r] = DoneRes]
  /\ UNCHANGED <<api_keys, now, ticks, admin, adminOps, fresh>>
  /\ UNCHANGED confVars

\* the await resumes with the map: the cache and its time are assigned, then
\* the lookup (the return notes by how much loadedAt went back, if it did)
LoadSuccess(r) ==
  /\ res[r].pc = "loaded"
  /\ res[r].snap # LoadError
  /\ dbApiKeysCache' = res[r].snap
  /\ dbApiKeysCacheTime' = res[r].now
  /\ ret' = [Return(res[r], res[r].domain,
                    LookupIn(res[r].snap, ToLower(res[r].domain)), "loaded")
             EXCEPT !.age = IF res[r].now < dbApiKeysCacheTime
                              THEN res[r].now - dbApiKeysCacheTime ELSE 0]
  /\ res' = [res EXCEPT ![r] = DoneRes]
  /\ UNCHANGED <<api_keys, now, ticks, admin, adminOps, fresh>>
  /\ UNCHANGED confVars

\* a catch that resets the cache to an empty mapping
LoadFailure_Resets(r) ==
  /\ res[r].pc = "loaded"
  /\ res[r].snap = LoadError
  /\ dbApiKeysCache' = EmptyMap
  /\ dbApiKeysCacheTime' = res[r].now
  /\ ret' = Return(res[r], res[r].domain, EnvFallback(ToLower(res[r].domain)), "failed")
  /\ res' = [res EXCEPT ![r] = DoneRes]
  /\ UNCHANGED <<api_keys, now, ticks, admin, adminOps, fresh>>
  /\ UNCHANGED confVars

\* the await throws: catch, fall through to the environment keys
LoadFailure(r) ==
  /\ res[r].pc = "loaded"
  /\ res[r].snap = LoadError
  /\ ret' = Return(res[r], res[r].domain, EnvFallback(ToLower(res[r].domain)), "failed")
  /\ res' = [res EXCEPT ![r] = DoneRes]
  /\ UNCHANGED <<api_keys, dbApiKeysCache, dbApiKeysCacheTime, now, ticks, admin,
                 adminOps, fresh>>
  /\ UNCHANGED confVars

\* clearApiKeysCache
clearApiKeysCache ==
  /\ dbApiKeysCache' = NullCache
  /\ dbApiKeysCacheTime' = 0

(***************************************************************************)
(* server.js, the admin handlers of api_keys: the store write, then, when   *)
(* the await resumes, clearApiKeysCache and the response.                  *)
(***************************************************************************)
\* database.js saveApiKey: upsert on domain, is_active = true
saveApiKey(domain, apiKey) ==
  [d \in DOMAIN api_keys \cup {ToLower(domain)} |->
     IF d = ToLower(domain) THEN [api_key |-> apiKey, is_active |-> TRUE] ELSE api_keys[d]]

\* database.js updateApiKey on the row of domain d
updateApiKey(d, updates) ==
  [api_keys EXCEPT ![d] = [api_key |-> IF "api_key" \in DOMAIN updates
                                        THEN updates.api_key ELSE @.api_key,
                           is_active |-> IF "is_active" \in DOMAIN updates
                                          THEN updates.is_active ELSE @.is_active]]

\* database.js deleteApiKey
deleteApiKey(d) == [x \in DOMAIN api_keys \ {d} |-> api_keys[x]]

Updates == {[is_active |-> FALSE], [api_key |-> "key_db2"]}

AdminBegin(d) ==
  /\ pool
  /\ admin.pc = "idle"
  /\ adminOps < MaxAdminOps
  /\ adminOps' = adminOps + 1
  /\ admin' = [pc |-> "written", domain |-> d]
  /\ fresh' = {}
  /\ res' = [r \in Resolvers |-> [res[r] EXCEPT !.firstAfter = FALSE, !.undisturbed = FALSE]]
  /\ ret' = [ret EXCEPT !.firstAfter = FALSE, !.undisturbed = FALSE]
  /\ UNCHANGED <<dbApiKeysCache, dbApiKeysCacheTime, now, ticks>>
  /\ UNCHANGED confVars

\* POST /api-keys up to the end of saveApiKey
PostApiKey(din, key) ==
  /\ Truthy(din) /\ Truthy(key)
  /\ AdminBegin(ToLower(din))
  /\ api_keys' = saveApiKey(din, key)

\* PATCH /api-keys/:id up to the end of updateApiKey, the row found
PatchApiKey(d, updates) ==
  /\ d \in DOMAIN api_keys
  /\ AdminBegin(d)
  /\ api_keys' = updateApiKey(d, updates)

\* DELETE /api-keys/:id up to the end of deleteApiKey, the row found
DeleteApiKey(d) ==
  /\ d \in DOMAIN api_keys
  /\ AdminBegin(d)
  /\ api_keys' = deleteApiKey(d)

\* the rest of the three handlers: clearApiKeysCache(), then the response
AdminClear ==
  /\ admin.pc = "written"
  /\ clearApiKeysCache
  /\ admin' = [pc |-> "idle", domain |-> admin.domain]
  /\ fresh' = {admin.domain}
  /\ UNCHANGED <<api_keys, now, ticks, res, adminOps, ret>>
  /\ UNCHANGED confVars

TickSteps == {API_KEYS_CACHE_TTL, API_KEYS_CACHE_TTL + 1}

\* time passes
Tick(delta) ==
  /\ ticks < MaxTicks
  /\ ticks' = ticks + 1
  /\ now' = now + delta
  /\ UNCHANGED <<api_keys, dbApiKeysCache, dbApiKeysCacheTime, res, admin, adminOps,
                 fresh, ret>>
  /\ UNCHANGED confVars

(***************************************************************************)
(* server.js POST /send and email-service.js sendEmail.                    *)
(***************************************************************************)
MAX_ATTACHMENT_SIZE == 10 * 1024 * 1024

\* an attachment: the length of its base64 content and the '=' padding in it
Att(len, pad) == [len |-> len, pad |-> pad]
\* the bytes the content decodes to
TrueSize(att) == 3 * (att.len \div 4) - att.pad
\* Math.floor(base64Length * 0.75)
decodedSize(att) == (att.len * 3) \div 4

RECURSIVE SumSizes(_, _)
SumSizes(atts, i) == IF i > Len(atts) THEN 0 ELSE decodedSize(atts[i]) + SumSizes(atts, i + 1)

\* a validation that checks each file and never the total
AttachmentsTooLarge_PerFileOnly(atts) ==
  \E i \in 1..Len(atts) : decodedSize(atts[i]) > MAX_ATTACHMENT_SIZE

\* the attachment loop of POST /send: a file over the limit, or the total over it
AttachmentsTooLarge(atts) ==
  \/ \E i \in 1..Len(atts) : decodedSize(atts[i]) > MAX_ATTACHMENT_SIZE
  \/ SumSizes(atts, 1) > MAX_ATTACHMENT_SIZE

\* a validation that forgets the subject
MissingFields_NoSubject(body) ==
  ~Truthy(body.to) \/ (~Truthy(body.html) /\ ~Truthy(body.text))

\* !body.to || !body.subject || (!body.html && !body.text)
MissingFields(body) ==
  ~Truthy(body.to) \/ ~Truthy(body.subject) \/ (~Truthy(body.html) /\ ~Truthy(body.text))

\* address.split('@')[1] on the addresses of the model
AddressDomain(address) ==
  CASE address \in {"noreply@a.com", "sales@a.com", "inbox@a.com"} -> "a.com"
    [] address \in {"noreply@b.com", "me@b.com", "sales@b.com"} -> "b.com"
    [] address = "Acme <me@b.com>" -> "b.com>"
    [] OTHER -> Undefined

Registry == {EMAIL_DOMAINS[i] : i \in DOMAIN EMAIL_DOMAINS}
\* config.EMAIL_DOMAIN and config.DEFAULT_FROM
EMAIL_DOMAIN == IF Len(EMAIL_DOMAINS) = 0 THEN Undefined ELSE EMAIL_DOMAINS[1]
DEFAULT_FROM == Get(DEFAULT_SENDERS, EMAIL_DOMAIN)

\* a selection that takes the requested domain and keeps the primary sender
SelectSender_PrimarySender(body) ==
  IF Truthy(body.from) THEN [from |-> body.from, domain |-> AddressDomain(body.from)]
  ELSE IF Truthy(body.domain)
    THEN [from |-> DEFAULT_FROM, domain |-> body.domain]
    ELSE [from |-> DEFAULT_FROM, domain |-> EMAIL_DOMAIN]

\* the domain and sender selection of POST /send
SelectSender(body) ==
  IF Truthy(body.from) THEN [from |-> body.from, domain |-> AddressDomain(body.from)]
  ELSE IF Truthy(body.domain) /\ body.domain \in Registry
    THEN [from |-> DEFAULT_SENDERS[body.domain], domain |-> body.domain]
    ELSE [from |-> DEFAULT_FROM, domain |-> EMAIL_DOMAIN]

\* sendEmail: const fromDomain = domain || (from && from.split('@')[1])
fromDomain(options) ==
  IF Truthy(options.domain) THEN options.domain
  ELSE IF Truthy(options.from) THEN AddressDomain(options.from) ELSE options.from

NoResponse == [status |-> 0, success |-> FALSE, error |-> Undefined]
IdleSend == [pc |-> "idle", body |-> Undefined, from |-> Undefined, domain |-> Undefined,
             apiKey |-> Undefined, accepted |-> FALSE, resendId |-> Undefined,
             providerStatus |-> 0, providerMessage |-> Undefined,
             response |-> NoResponse]

Respond(status, success, error) == [status |-> status, success |-> success, error |-> error]

\* POST /send from the parsed body to the first suspension: the two validations,
\* the selection, and sendEmail up to its call of getApiKeyForDomain
SendBegin(body) ==
  /\ send.pc = "idle"
  /\ IF MissingFields(body)
       THEN /\ send' = [IdleSend EXCEPT !.pc = "responded", !.body = body,
                          !.response = Respond(400, FALSE, "Missing required fields")]
            /\ UNCHANGED <<credVars, confVars>>
       ELSE IF AttachmentsTooLarge(body.attachments)
         THEN /\ send' = [IdleSend EXCEPT !.pc = "responded", !.body = body,
                            !.response = Respond(400, FALSE, "exceeds 10MB limit")]
              /\ UNCHANGED <<credVars, confVars>>
         ELSE LET sel == SelectSender(body)
                  options == [body EXCEPT !.from = sel.from]
              IN /\ send' = [IdleSend EXCEPT !.pc = "resolving", !.body = body,
                               !.from = sel.from, !.domain = sel.domain]
                 /\ ResolveStart(1, fromDomain(options))
  /\ UNCHANGED <<providerCalls, emails, batchVars, inboundVars>>

\* a sendEmail that goes to the provider whatever getApiKeyForDomain returned
SendResolved_SendsAnyway ==
  /\ send.pc = "resolving"
  /\ res[1].pc = "done"
  /\ send' = [send EXCEPT !.pc = "fetching", !.apiKey = ret.result]
  /\ providerCalls' = Append(providerCalls,
       [item |-> 0, apiKey |-> ret.result, from |-> Or(send.from, DEFAULT_FROM),
        to |-> send.body.to, subject |-> send.body.subject])
  /\ UNCHANGED <<emails, batchVars, inboundVars, credVars, confVars>>

\* sendEmail after getApiKeyForDomain returned: no key throws (status 500),
\* else the request goes to the provider
SendResolved ==
  /\ send.pc = "resolving"
  /\ res[1].pc = "done"
  /\ IF ~Truthy(ret.result)
       THEN /\ send' = [send EXCEPT !.pc = "responded",
                          !.response = Respond(500, FALSE, "No API key configured for domain")]
            /\ UNCHANGED providerCalls
       ELSE /\ send' = [send EXCEPT !.pc = "fetching", !.apiKey = ret.result]
            /\ providerCalls' = Append(providerCalls,
                 [item |-> 0, apiKey |-> ret.result, from |-> Or(send.from, DEFAULT_FROM),
                  to |-> send.body.to, subject |-> send.body.subject])
  /\ UNCHANGED <<emails, batchVars, inboundVars, credVars, confVars>>

\* a handler that goes on to the insert of saveEmail with or without a pool
ProviderAccepts_AlwaysSaves(id) ==
  /\ send.pc = "fetching"
  /\ send' = [send EXCEPT !.pc = "saving", !.accepted = TRUE, !.resendId = id]
  /\ UNCHANGED <<providerCalls, emails, batchVars, inboundVars, credVars, confVars>>

\* the provider accepts with an id: the handler goes on to saveEmail when a
\* pool exists, else answers 200
ProviderAccepts(id) ==
  /\ send.pc = "fetching"
  /\ IF pool
       THEN send' = [send EXCEPT !.pc = "saving", !.accepted = TRUE, !.resendId = id]
       ELSE send' = [send EXCEPT !.pc = "responded", !.accepted = TRUE, !.resendId = id,
                       !.response = Respond(200, TRUE, Undefined)]
  /\ UNCHANGED <<providerCalls, emails, batchVars, inboundVars, credVars, confVars>>

\* a handler that answers every provider failure with 500
ProviderRejects_Always500(status, message) ==
  /\ send.pc = "fetching"
  /\ send' = [send EXCEPT !.pc = "responded",
                !.providerStatus = status, !.providerMessage = message,
                !.response = Respond(500, FALSE, Or(message, "Failed to send email"))]
  /\ UNCHANGED <<providerCalls, emails, batchVars, inboundVars, credVars, confVars>>

\* the provider answers non-2xx, with a message or without: sendEmail throws
\* with the provider's status and data.message || 'Failed to send email', and
\* the handler's catch answers with them
ProviderRejects(status, message) ==
  /\ send.pc = "fetching"
  /\ send' = [send EXCEPT !.pc = "responded",
                !.providerStatus = status, !.providerMessage = message,
                !.response = Respond(status, FALSE, Or(message, "Failed to send email"))]
  /\ UNCHANGED <<providerCalls, emails, batchVars, inboundVars, credVars, confVars>>

\* database.js saveEmail: the row inserted
\* the NULL of a timestamp column
NoTime == 0

saveEmail(data) ==
  [resend_id |-> data.resendId,
   domain |-> Or(data.domain, Or(AddressDomain(Or(data.from, "")), "eternalgy.me")),
   from_email |-> data.from, to_email |-> data.to, subject |-> data.subject,
   status |-> data.status,
   delivered_at |-> NoTime, opened_at |-> NoTime, clicked_at |-> NoTime]

\* the insert of saveEmail completes, then the 200 response
SaveEmailDone ==
  /\ send.pc = "saving"
  /\ emails' = Append(emails, saveEmail([resendId |-> send.resendId, domain |-> send.domain,
                                         from |-> send.from, to |-> send.body.to,
                                         subject |-> send.body.subject, status |-> "sent"]))
  /\ send' = [send EXCEPT !.pc = "responded", !.response = Respond(200, TRUE, Undefined)]
  /\ UNCHANGED <<providerCalls, batchVars, inboundVars, credVars, confVars>>

\* the insert of saveEmail throws: the handler's catch answers 500
SaveEmailFails ==
  /\ send.pc = "saving"
  /\ send' = [send EXCEPT !.pc = "responded",
                !.response = Respond(500, FALSE, "store error")]
  /\ UNCHANGED <<providerCalls, emails, batchVars, inboundVars, credVars, confVars>>

\* one whole call of getApiKeyForDomain(d) taken in a single step, the store
\* answering (ok) or failing when a load is needed: the value it returns
KeyFor(d, ok) ==
  IF ~Truthy(d) THEN RESEND_API_KEY
  ELSE IF ~NeedsLoad(now) THEN LookupIn(dbApiKeysCache, ToLower(d))
  ELSE IF ok THEN LookupIn(getApiKeysMap, ToLower(d))
  ELSE EnvFallback(ToLower(d))

\* ... and what it leaves in the cache
CacheAfter(d, ok) ==
  IF Truthy(d) /\ NeedsLoad(now) /\ ok
    THEN dbApiKeysCache' = getApiKeysMap /\ dbApiKeysCacheTime' = now
    ELSE UNCHANGED <<dbApiKeysCache, dbApiKeysCacheTime>>

(***************************************************************************)
(* server.js POST /send-batch and email-service.js sendBatch.              *)
(***************************************************************************)
MaxBatch == 2

IdleBatch == [pc |-> "idle", emails |-> <<>>, results |-> <<>>, status |-> 0]
NoItem == [pc |-> "none", apiKey |-> Undefined, verdict |-> "none", value |-> Undefined,
           reason |-> 0]

\* POST /send-batch without an array in body.emails
BatchNotArray ==
  /\ batch.pc = "idle"
  /\ batch' = [IdleBatch EXCEPT !.pc = "responded", !.status = 400]
  /\ UNCHANGED <<item, settledOrder, sendVars, inboundVars, credVars, confVars>>

\* sendBatch: emails.map(email => sendEmail(email)) starts every call, each
\* running to its await of getApiKeyForDomain; then the handler awaits allSettled
BatchBegin(list) ==
  /\ batch.pc = "idle"
  /\ batch' = [IdleBatch EXCEPT !.pc = "waiting", !.emails = list]
  /\ item' = [i \in 1..MaxBatch |-> IF i <= Len(list) THEN [NoItem EXCEPT !.pc = "resolving"]
                                    ELSE NoItem]
  /\ UNCHANGED <<settledOrder, sendVars, inboundVars, credVars, confVars>>

\* the promise of item i settles
Settle(i, rec) ==
  /\ item' = [item EXCEPT ![i] = rec]
  /\ settledOrder' = Append(settledOrder, i)

\* getApiKeyForDomain returns to the sendEmail of item i, the store having
\* answered or failed: without a key the call throws (status 500), else the
\* request goes to the provider
ItemResolved(i, ok) ==
  /\ batch.pc = "waiting"
  /\ item[i].pc = "resolving"
  /\ ok \/ pool
  /\ LET key == KeyFor(fromDomain(batch.emails[i]), ok)
     IN /\ CacheAfter(fromDomain(batch.emails[i]), ok)
        /\ IF ~Truthy(key)
             THEN /\ Settle(i, [item[i] EXCEPT !.pc = "rejected", !.reason = 500])
                  /\ UNCHANGED providerCalls
             ELSE /\ item' = [item EXCEPT ![i].pc = "fetching", ![i].apiKey = key]
                  /\ providerCalls' = Append(providerCalls,
                       [item |-> i, apiKey |-> key,
                        from |-> Or(batch.emails[i].from, DEFAULT_FROM),
                        to |-> batch.emails[i].to, subject |-> batch.emails[i].subject])
                  /\ UNCHANGED settledOrder
  /\ UNCHANGED <<batch, send, emails, api_keys, now, ticks, res, admin, adminOps, ret, fresh,
                 inboundVars, confVars>>

\* the provider accepts item i: its promise fulfils with the response
ItemAccepted(i, id) ==
  /\ batch.pc = "waiting"
  /\ item[i].pc = "fetching"
  /\ Settle(i, [item[i] EXCEPT !.pc = "fulfilled", !.verdict = "accepted", !.value = id])
  /\ UNCHANGED <<batch, sendVars, inboundVars, credVars, confVars>>

\* the provider rejects item i: its promise rejects with the provider's status
ItemRejected(i, status) ==
  /\ batch.pc = "waiting"
  /\ item[i].pc = "fetching"
  /\ Settle(i, [item[i] EXCEPT !.pc = "rejected", !.verdict = "rejected", !.reason = status])
  /\ UNCHANGED <<batch, sendVars, inboundVars, credVars, confVars>>

\* results.map((result, index) => ({index, success, data, error}))
BatchResult(i) ==
  [index |-> i - 1,
   success |-> item[i].pc = "fulfilled",
   data |-> IF item[i].pc = "fulfilled" THEN item[i].value ELSE Undefined,
   error |-> IF item[i].pc = "rejected" THEN item[i].reason ELSE 0]

\* a join that lists the outcomes in the order the promises settled
BatchJoin_SettledOrder ==
  /\ batch.pc = "waiting"
  /\ \A i \in 1..Len(batch.emails) : item[i].pc \in {"fulfilled", "rejected"}
  /\ batch' = [batch EXCEPT !.pc = "responded", !.status = 200,
                 !.results = [k \in 1..Len(batch.emails) |->
                                [BatchResult(settledOrder[k]) EXCEPT !.index = k - 1]]]
  /\ UNCHANGED <<item, settledOrder, sendVars, inboundVars, credVars, confVars>>

\* a join that answers as soon as one promise has settled
BatchJoin_FirstSettled ==
  /\ batch.pc = "waiting"
  /\ \/ Len(batch.emails) = 0
     \/ \E i \in 1..Len(batch.emails) : item[i].pc \in {"fulfilled", "rejected"}
  /\ batch' = [batch EXCEPT !.pc = "responded", !.status = 200,
                 !.results = [k \in 1..Len(batch.emails) |-> BatchResult(k)]]
  /\ UNCHANGED <<item, settledOrder, sendVars, inboundVars, credVars, confVars>>

\* Promise.allSettled resolves once every promise has settled; the results are
\* mapped in input order and answered with 200
BatchJoin ==
  /\ batch.pc = "waiting"
  /\ \A i \in 1..Len(batch.emails) : item[i].pc \in {"fulfilled", "rejected"}
  /\ batch' = [batch EXCEPT !.pc = "responded", !.status = 200,
                 !.results = [i \in 1..Len(batch.emails) |-> BatchResult(i)]]
  /\ UNCHANGED <<item, settledOrder, sendVars, inboundVars, credVars, confVars>>

(***************************************************************************)
(* server.js POST /webhook, database.js saveWebhook, saveReceivedEmail and *)
(* updateReceivedEmail, resend-client.js getReceivedEmailWithRetry.        *)
(***************************************************************************)
MaxArrivals == 2       \* webhook requests received
retries == 3

Null == "<null>"
\* a request and the fetch it schedules occupy one of two places while in flight
Hooks == {1, 2}

RECURSIVE Join(_)
\* to.join(', ')
Join(to) ==
  IF Len(to) = 0 THEN ""
  ELSE IF Len(to) = 1 THEN to[1]
  ELSE to[1] \o ", " \o Join(Tail(to))

\* toEmail ? toEmail.split('@')[1] : null, toEmail being to[0]
RecipientDomain(to) == IF Len(to) = 0 THEN Null ELSE AddressDomain(to[1])

\* the argument the handler gives to saveReceivedEmail
StubData(data) ==
  [emailId |-> data.email_id,
   domain |-> RecipientDomain(data.to),
   from |-> data.from,
   to |-> Join(data.to),
   subject |-> Or(data.subject, "(no subject)"),
   html |-> Null,
   text |-> Null,
   attachments |-> data.attachments,
   headers |-> data.headers]

\* the row saveReceivedEmail inserts
StubRow(d) ==
  [email_id |-> d.emailId,
   domain |-> IF d.domain # Null /\ Truthy(d.domain) THEN d.domain ELSE "eternalgy.me",
   from_email |-> d.from,
   to_email |-> d.to,
   subject |-> d.subject,
   html_content |-> d.html,
   text_content |-> d.text,
   attachments |-> Or(d.attachments, "[]"),
   headers |-> Or(d.headers, "{}")]

HasRow(table, id) == \E k \in DOMAIN table : table[k].email_id = id

\* an insert that replaces the row on a conflict of email_id
saveReceivedEmail_Upsert(d) ==
  IF HasRow(received_emails, d.emailId)
    THEN [k \in DOMAIN received_emails |->
            IF received_emails[k].email_id = d.emailId THEN StubRow(d) ELSE received_emails[k]]
    ELSE Append(received_emails, StubRow(d))

\* INSERT INTO received_emails ... ON CONFLICT (email_id) DO NOTHING
saveReceivedEmail(d) ==
  IF HasRow(received_emails, d.emailId) THEN received_emails
  ELSE Append(received_emails, StubRow(d))

\* UPDATE received_emails SET html_content, text_content, headers WHERE email_id:
\* html and text when not undefined, headers when truthy
updateReceivedEmail(emailId, data) ==
  [k \in DOMAIN received_emails |->
     IF received_emails[k].email_id # emailId THEN received_emails[k]
     ELSE [received_emails[k] EXCEPT
             !.html_content = IF data.html # Undefined THEN data.html ELSE @,
             !.text_content = IF data.text # Undefined THEN data.text ELSE @,
             !.headers = IF Truthy(data.headers) THEN data.headers ELSE @]]

NoError == [attempt |-> 0, kind |-> "none"]
NoContent == [html |-> Undefined, text |-> Undefined, headers |-> Undefined]
IdleHook == [pc |-> "idle", body |-> Undefined, status |-> 0]
NoFetch == [pc |-> "none", emailId |-> Undefined, domain |-> Undefined, i |-> 0,
            calls |-> 0, lastError |-> NoError, fullEmail |-> NoContent,
            raised |-> NoError]

\* m with key k set to v when m has no key k
PutIfAbsent(m, k, v) ==
  IF k \in DOMAIN m THEN m ELSE [x \in DOMAIN m \cup {k} |-> IF x = k THEN v ELSE m[x]]

Count(m, k) == IF k \in DOMAIN m THEN m[k] ELSE 0

Vacant(h) == hook[h].pc \in {"idle", "responded"} /\ fetchRun[h].pc \in {"none", "done", "failed"}

\* POST /webhook: a notification arrives; without a store it is acknowledged
\* at once, else saveWebhook is awaited
WebhookArrives(h, body) ==
  /\ arrivals < MaxArrivals
  /\ Vacant(h)
  /\ \A k \in Hooks : k < h => ~Vacant(k)
  /\ arrivals' = arrivals + 1
  /\ firstArrival' = PutIfAbsent(firstArrival, body.data.email_id, body)
  /\ hook' = [hook EXCEPT ![h] = IF pool THEN [pc |-> "logging", body |-> body, status |-> 0]
                                 ELSE [pc |-> "responded", body |-> body, status |-> 200]]
  /\ fetchRun' = [fetchRun EXCEPT ![h] = NoFetch]
  /\ UNCHANGED <<webhooks, received_emails, firstWrite, contentWrites, sendVars, batchVars,
                 credVars, confVars>>

\* statusMap[body.type], undefined for the other event types
statusMap(type) ==
  CASE type = "email.sent" -> "sent"
    [] type = "email.delivered" -> "delivered"
    [] type = "email.bounced" -> "bounced"
    [] type = "email.complained" -> "complained"
    [] type = "email.opened" -> "opened"
    [] type = "email.clicked" -> "clicked"
    [] OTHER -> Undefined

\* updateData of the handler: new Date() in the column of the event's type
updateData(type) ==
  [delivered_at |-> IF type = "email.delivered" THEN now ELSE NoTime,
   opened_at |-> IF type = "email.opened" THEN now ELSE NoTime,
   clicked_at |-> IF type = "email.clicked" THEN now ELSE NoTime]

\* an update that inserts a row for the id when the table has none
updateEmailStatus_Upsert(resendId, status, data) ==
  IF \E k \in DOMAIN emails : emails[k].resend_id = resendId
    THEN [k \in DOMAIN emails |->
            IF emails[k].resend_id = resendId THEN [emails[k] EXCEPT !.status = status]
            ELSE emails[k]]
    ELSE Append(emails, [resend_id |-> resendId, domain |-> Undefined,
                         from_email |-> Undefined, to_email |-> Undefined,
                         subject |-> Undefined, status |-> status,
                         delivered_at |-> data.delivered_at, opened_at |-> data.opened_at,
                         clicked_at |-> data.clicked_at])

\* an update without its WHERE clause
updateEmailStatus_AllRows(resendId, status, data) ==
  [k \in DOMAIN emails |-> [emails[k] EXCEPT !.status = status]]

\* database.js updateEmailStatus: UPDATE emails SET status and the timestamps
\* given WHERE resend_id = resendId
updateEmailStatus(resendId, status, data) ==
  [k \in DOMAIN emails |->
     IF emails[k].resend_id # resendId THEN emails[k]
     ELSE [emails[k] EXCEPT
             !.status = status,
             !.delivered_at = IF data.delivered_at # NoTime THEN data.delivered_at ELSE @,
             !.opened_at = IF data.opened_at # NoTime THEN data.opened_at ELSE @,
             !.clicked_at = IF data.clicked_at # NoTime THEN data.clicked_at ELSE @]]

\* a handler that does not log an event the log already holds
SaveWebhookDone_SkipsDuplicates(h) ==
  /\ hook[h].pc = "logging"
  /\ LET entry == [event_type |-> hook[h].body.type, email_id |-> hook[h].body.data.email_id]
     IN webhooks' = IF \E k \in DOMAIN webhooks : webhooks[k] = entry THEN webhooks
                    ELSE Append(webhooks, entry)
  /\ hook' = IF Truthy(hook[h].body.data.email_id) /\ Truthy(statusMap(hook[h].body.type))
               THEN [hook EXCEPT ![h].pc = "status"]
             ELSE IF hook[h].body.type = "email.received"
               THEN [hook EXCEPT ![h].pc = "saving"]
               ELSE [hook EXCEPT ![h].pc = "responded", ![h].status = 200]
  /\ UNCHANGED <<fetchRun, received_emails, arrivals, firstArrival, firstWrite,
                 contentWrites, sendVars, batchVars, credVars, confVars>>

\* saveWebhook inserted the event; a delivery-status event with an email_id
\* goes on to updateEmailStatus, an email.received event to
\* saveReceivedEmail, any other event is acknowledged
SaveWebhookDone(h) ==
  /\ hook[h].pc = "logging"
  /\ webhooks' = Append(webhooks, [event_type |-> hook[h].body.type,
                                   email_id |-> hook[h].body.data.email_id])
  /\ hook' = IF Truthy(hook[h].body.data.email_id) /\ Truthy(statusMap(hook[h].body.type))
               THEN [hook EXCEPT ![h].pc = "status"]
             ELSE IF hook[h].body.type = "email.received"
               THEN [hook EXCEPT ![h].pc = "saving"]
               ELSE [hook EXCEPT ![h].pc = "responded", ![h].status = 200]
  /\ UNCHANGED <<fetchRun, received_emails, arrivals, firstArrival, firstWrite,
                 contentWrites, sendVars, batchVars, credVars, confVars>>

\* saveWebhook threw: the handler's catch answers 500
SaveWebhookFails(h) ==
  /\ hook[h].pc = "logging"
  /\ hook' = [hook EXCEPT ![h].pc = "responded", ![h].status = 500]
  /\ UNCHANGED <<fetchRun, webhooks, received_emails, arrivals, firstArrival, firstWrite,
                 contentWrites, sendVars, batchVars, credVars, confVars>>

\* a handler that holds its response back until the content fetch is over
SaveReceivedDone_AwaitsFetch(h) ==
  /\ hook[h].pc = "saving"
  /\ received_emails' = saveReceivedEmail(StubData(hook[h].body.data))
  /\ firstWrite' = PutIfAbsent(firstWrite, hook[h].body.data.email_id,
                                StubRow(StubData(hook[h].body.data)))
  /\ fetchRun' = [fetchRun EXCEPT ![h] =
                    [NoFetch EXCEPT !.pc = "scheduled",
                                    !.emailId = hook[h].body.data.email_id,
                                    !.domain = RecipientDomain(hook[h].body.data.to)]]
  /\ hook' = [hook EXCEPT ![h].pc = "awaiting"]
  /\ UNCHANGED <<webhooks, arrivals, firstArrival, contentWrites, sendVars, batchVars,
                 credVars, confVars>>

\* saveReceivedEmail ran; with an email_id the content fetch is set on a
\* timer, and the handler answers 200
SaveReceivedDone(h) ==
  /\ hook[h].pc = "saving"
  /\ received_emails' = saveReceivedEmail(StubData(hook[h].body.data))
  /\ firstWrite' = PutIfAbsent(firstWrite, hook[h].body.data.email_id,
                                StubRow(StubData(hook[h].body.data)))
  /\ fetchRun' = IF Truthy(hook[h].body.data.email_id)
                   THEN [fetchRun EXCEPT ![h] =
                           [NoFetch EXCEPT !.pc = "scheduled",
                                           !.emailId = hook[h].body.data.email_id,
                                           !.domain = RecipientDomain(hook[h].body.data.to)]]
                   ELSE fetchRun
  /\ hook' = [hook EXCEPT ![h].pc = "responded", ![h].status = 200]
  /\ UNCHANGED <<webhooks, arrivals, firstArrival, contentWrites, sendVars, batchVars,
                 credVars, confVars>>

\* a handler that sets the fetch on its timer although saveReceivedEmail threw
SaveReceivedFails_StillFetches(h) ==
  /\ hook[h].pc = "saving"
  /\ hook' = [hook EXCEPT ![h].pc = "responded", ![h].status = 500]
  /\ fetchRun' = [fetchRun EXCEPT ![h] =
                    [NoFetch EXCEPT !.pc = "scheduled",
                                    !.emailId = hook[h].body.data.email_id,
                                    !.domain = RecipientDomain(hook[h].body.data.to)]]
  /\ UNCHANGED <<webhooks, received_emails, arrivals, firstArrival, firstWrite,
                 contentWrites, sendVars, batchVars, credVars, confVars>>

\* saveReceivedEmail threw: no fetch is set up, the catch answers 500
SaveReceivedFails(h) ==
  /\ hook[h].pc = "saving"
  /\ hook' = [hook EXCEPT ![h].pc = "responded", ![h].status = 500]
  /\ UNCHANGED <<fetchRun, webhooks, received_emails, arrivals, firstArrival, firstWrite,
                 contentWrites, sendVars, batchVars, credVars, confVars>>

\* a handler that applies a status only when it is later in the delivery
\* order than the stored one
UpdateStatusDone_ForwardOnly(h) ==
  /\ hook[h].pc = "status"
  /\ emails' =
       [k \in DOMAIN emails |->
          IF /\ emails[k].resend_id = hook[h].body.data.email_id
             /\ emails[k].status = "sent"
            THEN updateEmailStatus(hook[h].body.data.email_id, statusMap(hook[h].body.type),
                                   updateData(hook[h].body.type))[k]
            ELSE emails[k]]
  /\ hook' = [hook EXCEPT ![h].pc = "responded", ![h].status = 200]
  /\ UNCHANGED <<send, providerCalls, fetchRun, webhooks, received_emails, arrivals,
                 firstArrival, firstWrite, contentWrites, batchVars, credVars, confVars>>

\* updateEmailStatus ran for a delivery-status event; the event is not an
\* email.received one, and the handler answers 200
UpdateStatusDone(h) ==
  /\ hook[h].pc = "status"
  /\ emails' = updateEmailStatus(hook[h].body.data.email_id, statusMap(hook[h].body.type),
                                 updateData(hook[h].body.type))
  /\ hook' = [hook EXCEPT ![h].pc = "responded", ![h].status = 200]
  /\ UNCHANGED <<send, providerCalls, fetchRun, webhooks, received_emails, arrivals,
                 firstArrival, firstWrite, contentWrites, batchVars, credVars, confVars>>

\* the provider reports on a message it has accepted, now or in an earlier
\* life of the process: its notification arrives at POST /webhook
ProviderNotifies(h, body) ==
  /\ \/ \E k \in DOMAIN emails : emails[k].resend_id = body.data.email_id
     \/ send.accepted /\ send.resendId = body.data.email_id
  /\ WebhookArrives(h, body)

\* updateEmailStatus threw: the catch answers 500
UpdateStatusFails(h) ==
  /\ hook[h].pc = "status"
  /\ hook' = [hook EXCEPT ![h].pc = "responded", ![h].status = 500]
  /\ UNCHANGED <<fetchRun, webhooks, received_emails, arrivals, firstArrival, firstWrite,
                 contentWrites, sendVars, batchVars, credVars, confVars>>

\* the request of a manual re-fetch as a place holds it
ManualBody(emailId) == [type |-> "manual.fetch", data |-> [email_id |-> emailId]]

\* POST /received-emails/fetch: 503 without a store, 400 without an email_id,
\* else getReceivedEmailByEmailId is awaited
ManualFetchBegin(h, emailId) ==
  /\ arrivals < MaxArrivals
  /\ Vacant(h)
  /\ \A k \in Hooks : k < h => ~Vacant(k)
  /\ arrivals' = arrivals + 1
  /\ hook' = [hook EXCEPT ![h] =
       IF ~pool THEN [pc |-> "responded", body |-> ManualBody(emailId), status |-> 503]
       ELSE IF ~Truthy(emailId)
         THEN [pc |-> "responded", body |-> ManualBody(emailId), status |-> 400]
         ELSE [pc |-> "lookup", body |-> ManualBody(emailId), status |-> 0]]
  /\ fetchRun' = [fetchRun EXCEPT ![h] = NoFetch]
  /\ UNCHANGED <<webhooks, received_emails, firstArrival, firstWrite, contentWrites,
                 sendVars, batchVars, credVars, confVars>>

\* email?.domain for the row getReceivedEmailByEmailId returns, if any
StoredDomain(emailId) ==
  IF HasRow(received_emails, emailId)
    THEN (CHOOSE row \in {received_emails[k] : k \in DOMAIN received_emails} :
            row.email_id = emailId).domain
    ELSE Undefined

\* the row was looked up: getReceivedEmailWithRetry starts with its domain
ManualLookupDone(h) ==
  /\ hook[h].pc = "lookup"
  /\ hook' = [hook EXCEPT ![h].pc = "refetching"]
  /\ fetchRun' = [fetchRun EXCEPT ![h] =
                    [NoFetch EXCEPT !.pc = "running",
                                    !.emailId = hook[h].body.data.email_id,
                                    !.domain = StoredDomain(hook[h].body.data.email_id)]]
  /\ UNCHANGED <<webhooks, received_emails, arrivals, firstArrival, firstWrite,
                 contentWrites, sendVars, batchVars, credVars, confVars>>

\* getReceivedEmailByEmailId threw: the catch answers 500
ManualLookupFails(h) ==
  /\ hook[h].pc = "lookup"
  /\ hook' = [hook EXCEPT ![h].pc = "responded", ![h].status = 500]
  /\ UNCHANGED <<fetchRun, webhooks, received_emails, arrivals, firstArrival, firstWrite,
                 contentWrites, sendVars, batchVars, credVars, confVars>>

\* the retry loop and the update are over: 200 after the update, 500 when
\* the loop or the update threw
ManualFetchResponds(h) ==
  /\ hook[h].pc = "refetching"
  /\ fetchRun[h].pc \in {"done", "failed"}
  /\ hook' = [hook EXCEPT ![h].pc = "responded",
                          ![h].status = IF fetchRun[h].pc = "done" THEN 200 ELSE 500]
  /\ UNCHANGED <<fetchRun, webhooks, received_emails, arrivals, firstArrival, firstWrite,
                 contentWrites, sendVars, batchVars, credVars, confVars>>

\* the loop may go round once more: for (let i = 0; i < retries; i++)
CanAttempt(run) == run.pc \in {"scheduled", "running"} /\ run.i < retries

\* a catch that keeps the error of the first failed attempt
AttemptFailed_FirstError(run, kind) ==
  LET err == IF run.lastError = NoError THEN [attempt |-> run.i + 1, kind |-> kind]
             ELSE run.lastError
  IN IF run.i + 1 < retries
       THEN [run EXCEPT !.pc = "running", !.i = run.i + 1, !.lastError = err]
       ELSE [run EXCEPT !.pc = "failed", !.i = run.i + 1, !.lastError = err, !.raised = err]

\* a loop that starts over when its attempts are used up
AttemptFailed_RetriesForever(run, kind) ==
  LET err == [attempt |-> run.i + 1, kind |-> kind]
  IN IF run.i + 1 < retries
       THEN [run EXCEPT !.pc = "running", !.i = run.i + 1, !.lastError = err]
       ELSE [run EXCEPT !.pc = "running", !.i = 0, !.calls = 0, !.lastError = err]

\* catch (err) { lastError = err }, i++, and throw lastError after the loop
AttemptFailed(run, kind) ==
  LET err == [attempt |-> run.i + 1, kind |-> kind]
  IN IF run.i + 1 < retries
       THEN [run EXCEPT !.pc = "running", !.i = run.i + 1, !.lastError = err]
       ELSE [run EXCEPT !.pc = "failed", !.i = run.i + 1, !.lastError = err, !.raised = err]

FetchFrame ==
  UNCHANGED <<hook, webhooks, arrivals, firstArrival, firstWrite, sendVars, batchVars,
              api_keys, now, ticks, res, admin, adminOps, ret, fresh, confVars>>

\* an attempt of getReceivedEmail that finds no API key for the domain
FetchAttemptNoKey(h, ok) ==
  /\ CanAttempt(fetchRun[h])
  /\ ~Truthy(KeyFor(IF fetchRun[h].domain = Null THEN Undefined ELSE fetchRun[h].domain, ok))
  /\ CacheAfter(IF fetchRun[h].domain = Null THEN Undefined ELSE fetchRun[h].domain, ok)
  /\ fetchRun' = [fetchRun EXCEPT ![h] = AttemptFailed(fetchRun[h], "nokey")]
  /\ UNCHANGED <<received_emails, contentWrites>>
  /\ FetchFrame

\* an attempt whose request the provider answers with an error
FetchAttemptFails(h, ok) ==
  /\ CanAttempt(fetchRun[h])
  /\ Truthy(KeyFor(IF fetchRun[h].domain = Null THEN Undefined ELSE fetchRun[h].domain, ok))
  /\ CacheAfter(IF fetchRun[h].domain = Null THEN Undefined ELSE fetchRun[h].domain, ok)
  /\ fetchRun' = [fetchRun EXCEPT ![h] =
                    AttemptFailed([fetchRun[h] EXCEPT !.calls = @ + 1], "provider")]
  /\ UNCHANGED <<received_emails, contentWrites>>
  /\ FetchFrame

\* an attempt that returns the message: the loop is left and the caller
\* awaits updateReceivedEmail
FetchAttemptSucceeds(h, ok, content) ==
  /\ CanAttempt(fetchRun[h])
  /\ Truthy(KeyFor(IF fetchRun[h].domain = Null THEN Undefined ELSE fetchRun[h].domain, ok))
  /\ CacheAfter(IF fetchRun[h].domain = Null THEN Undefined ELSE fetchRun[h].domain, ok)
  /\ fetchRun' = [fetchRun EXCEPT ![h].pc = "updating", ![h].calls = @ + 1,
                                  ![h].fullEmail = content]
  /\ UNCHANGED <<received_emails, contentWrites>>
  /\ FetchFrame

\* updateReceivedEmail ran
UpdateReceivedDone(h) ==
  /\ fetchRun[h].pc = "updating"
  /\ received_emails' = updateReceivedEmail(fetchRun[h].emailId, fetchRun[h].fullEmail)
  /\ contentWrites' =
       IF HasRow(received_emails, fetchRun[h].emailId)
         THEN [x \in DOMAIN contentWrites \cup {fetchRun[h].emailId} |->
                 IF x = fetchRun[h].emailId THEN Count(contentWrites, x) + 1
                 ELSE contentWrites[x]]
         ELSE contentWrites
  /\ fetchRun' = [fetchRun EXCEPT ![h].pc = "done"]
  /\ UNCHANGED <<dbApiKeysCache, dbApiKeysCacheTime>>
  /\ FetchFrame

\* updateReceivedEmail threw: the timer callback's catch logs the error
UpdateReceivedFails(h) ==
  /\ fetchRun[h].pc = "updating"
  /\ fetchRun' = [fetchRun EXCEPT ![h].pc = "failed",
                                  ![h].raised = [attempt |-> 0, kind |-> "store"]]
  /\ UNCHANGED <<received_emails, contentWrites, dbApiKeysCache, dbApiKeysCacheTime>>
  /\ FetchFrame

(***************************************************************************)
(* config.js at module load.                                               *)
(***************************************************************************)
MaxParts == 3

\* the parts a domain list is made of: plain, padded upper-case, blank, empty
Parts == {"a.com", " A.COM ", "b.com", " ", ""}

\* the values of EMAIL_DOMAINS: unset, or a string of one to MaxParts parts
DomainLists ==
  {Unset} \cup UNION {{Str(l) : l \in [1..n -> Parts]} : n \in 1..MaxParts}

\* the module is evaluated: the registry, the senders and the static keys
LoadConfig ==
  /\ ~processEnv.loaded
  /\ processEnv' = [processEnv EXCEPT !.loaded = TRUE]
  /\ EMAIL_DOMAINS' = parseDomains(processEnv)
  /\ DEFAULT_SENDERS' = parseDefaultSenders(parseDomains(processEnv), EmptyMap)
  /\ ENV_API_KEYS' = parseApiKeysFromEnv(parseDomains(processEnv), EmptyMap, RESEND_API_KEY)
  /\ UNCHANGED <<RESEND_API_KEY, pool, credVars, sendVars, batchVars, inboundVars>>

InitCred ==
  /\ api_keys = [d \in {"a.com"} |-> [api_key |-> "key_db1", is_active |-> TRUE]]
  /\ dbApiKeysCache = NullCache
  /\ dbApiKeysCacheTime = 0
  /\ now = StartTime
  /\ ticks = 0
  /\ res = [r \in Resolvers |-> IdleRes]
  /\ admin = [pc |-> "idle", domain |-> Undefined]
  /\ adminOps = 0
  /\ fresh = {}
  /\ ret = NoReturn

InitConf ==
  /\ RESEND_API_KEY \in {Undefined, "key_default"}
  /\ EMAIL_DOMAINS = <<"a.com">>
  /\ processEnv = EnvFor(EMAIL_DOMAINS)
  /\ DEFAULT_SENDERS = parseDefaultSenders(EMAIL_DOMAINS, EmptyMap)
  /\ \E pairs \in {EmptyMap, [d \in {"a.com"} |-> "key_env_a"]} :
       ENV_API_KEYS = parseApiKeysFromEnv(EMAIL_DOMAINS, pairs, RESEND_API_KEY)
  /\ pool \in BOOLEAN

InitSend ==
  /\ send = IdleSend
  /\ providerCalls = <<>>
  /\ emails = <<>>

InitBatch ==
  /\ batch = IdleBatch
  /\ item = [i \in 1..MaxBatch |-> NoItem]
  /\ settledOrder = <<>>

InitInbound ==
  /\ hook = [h \in Hooks |-> IdleHook]
  /\ fetchRun = [h \in Hooks |-> NoFetch]
  /\ webhooks = <<>>
  /\ received_emails = <<>>
  /\ arrivals = 0
  /\ firstArrival = EmptyMap
  /\ firstWrite = EmptyMap
  /\ contentWrites = EmptyMap

Init == InitConf /\ InitCred /\ InitSend /\ InitBatch /\ InitInbound

\* the process before config.js has run, for every environment of the model
InitConfig ==
  /\ \E list \in DomainLists, single \in {Unset, Str(<<"b.com">>)} :
       processEnv = [EMAIL_DOMAINS |-> list, EMAIL_DOMAIN |-> single, loaded |-> FALSE]
  /\ RESEND_API_KEY \in {Undefined, "key_default"}
  /\ EMAIL_DOMAINS = <<>>
  /\ DEFAULT_SENDERS = EmptyMap
  /\ ENV_API_KEYS = EmptyMap
  /\ pool = FALSE
  /\ InitCred
  /\ InitSend
  /\ InitBatch
  /\ InitInbound

\* the configuration and credential state of a process just started with one
\* of these registries, configured senders and credential tables
ProcessConfigured(registries, senderPairs, tables) ==
  /\ RESEND_API_KEY \in {Undefined, "key_default"}
  /\ EMAIL_DOMAINS \in registries
  /\ processEnv = EnvFor(EMAIL_DOMAINS)
  /\ \E pairs \in senderPairs : DEFAULT_SENDERS = parseDefaultSenders(EMAIL_DOMAINS, pairs)
  /\ ENV_API_KEYS = parseApiKeysFromEnv(EMAIL_DOMAINS, EmptyMap, RESEND_API_KEY)
  /\ pool \in BOOLEAN
  /\ api_keys \in tables
  /\ dbApiKeysCache = NullCache
  /\ dbApiKeysCacheTime = 0
  /\ now = StartTime
  /\ ticks = 0
  /\ res = [r \in Resolvers |-> IdleRes]
  /\ admin = [pc |-> "idle", domain |-> Undefined]
  /\ adminOps = 0
  /\ fresh = {}
  /\ ret = NoReturn

\* a process just started, its tables of messages empty
ProcessStarts(registries, senderPairs, tables) ==
  /\ ProcessConfigured(registries, senderPairs, tables)
  /\ InitSend
  /\ InitBatch
  /\ InitInbound

BothRegistered ==
  [d \in Dom |-> [api_key |-> IF d = "a.com" THEN "key_db1" ELSE "key_db2", is_active |-> TRUE]]
OneRegistered == [d \in {"a.com"} |-> [api_key |-> "key_db1", is_active |-> TRUE]]

\* the process of the outbound dispatcher: a registry of one or two domains, a
\* sender configured for a.com or not, credentials registered for both domains
InitDispatch ==
  ProcessStarts({<<"a.com">>, <<"a.com", "b.com">>},
                {EmptyMap, [d \in {"a.com"} |-> "sales@a.com"]},
                {EmptyMap, BothRegistered})

\* the process of the batch handler: one registered domain, a credential for
\* it in the store or none
InitBatchSend == ProcessStarts({<<"a.com">>}, {EmptyMap}, {EmptyMap, OneRegistered})

\* the process of the inbound handler: one registered domain with its
\* credential in the store
InitReceive == ProcessStarts({<<"a.com">>}, {EmptyMap}, {OneRegistered})

\* 'email.received' notifications: two for the message in_1 that differ in
\* their fields, one for in_2
Received(id, to, subject, attachments) ==
  [type |-> "email.received",
   data |-> [email_id |-> id, from |-> "x@ext.com", to |-> to, subject |-> subject,
             attachments |-> attachments, headers |-> Undefined]]

Notifications ==
  { Received("in_1", <<"inbox@a.com">>, "S1", Undefined),
    Received("in_1", <<"sales@b.com", "inbox@a.com">>, Undefined, "[att]"),
    Received("in_2", <<"inbox@a.com">>, "S1", Undefined) }

\* the notification for in_1, which the provider may deliver again
Redeliveries == { Received("in_1", <<"inbox@a.com">>, "S1", Undefined) }

\* a delivery-status notification
Delivered(id) == [type |-> "email.delivered", data |-> [email_id |-> id]]

\* the requests that concern the stored message in_1: its arrival, which may
\* be repeated, a delivery-status event, and manual re-fetches
ContentEvents == { Received("in_1", <<"inbox@a.com">>, "S1", Undefined), Delivered("in_1") }
ManualIds == {Undefined, "in_1"}

\* delivery-status notifications and one of a type the handler does not know
StatusEvent(type, id) == [type |-> type, data |-> [email_id |-> id]]
StatusEvents ==
  { StatusEvent(type, id) :
      type \in {"email.sent", "email.delivered", "email.delivery_delayed"},
      id \in {"re_0", "re_1"} }

\* the request sent while the notifications come in
StatusBodies ==
  { [to |-> "a@x.com", subject |-> "Hi", html |-> "<p>hi</p>", text |-> Undefined,
     from |-> Undefined, domain |-> "a.com", attachments |-> <<>>] }

\* the message recorded for an earlier send, which the provider accepted as re_0
EarlierMessage ==
  saveEmail([resendId |-> "re_0", domain |-> "a.com", from |-> "noreply@a.com",
             to |-> "z@x.com", subject |-> "Earlier", status |-> "sent"])

\* what the provider returns for a received message: one without an html part
Contents == { [html |-> Undefined, text |-> "body", headers |-> "{h}"] }

AttachmentLists ==
  { <<>>,
    <<Att(4, 0)>>,
    <<Att(13981016, 2)>>,                      \* decodes to 10 MiB exactly
    <<Att(13981016, 1)>>,                      \* one byte over
    <<Att(20971520, 0)>>,                      \* 15 MiB
    <<Att(6990508, 1), Att(4, 0)>>,            \* 5 MiB and 3 bytes
    <<Att(6990508, 0), Att(6990508, 0)>>,      \* twice 5 MiB + 1
    <<Att(4, 0), Att(13981016, 1)>> }

Bodies ==
  [to : {Undefined, "a@x.com"}, subject : {Undefined, "Hi"}, html : {Undefined, "<p>hi</p>"},
   text : {Undefined, "hi"}, from : {Undefined, "me@b.com", "Acme <me@b.com>"},
   domain : {Undefined, "a.com", "b.com", "A.COM"}, attachments : AttachmentLists]

\* three requests to POST /send: for a.com by domain, for b.com by sender, and
\* one without a subject
GatewayBodies ==
  { [to |-> "a@x.com", subject |-> "Hi", html |-> "<p>hi</p>", text |-> Undefined,
     from |-> Undefined, domain |-> "a.com", attachments |-> <<>>],
    [to |-> "b@x.com", subject |-> "Hi", html |-> "<p>hi</p>", text |-> Undefined,
     from |-> "me@b.com", domain |-> Undefined, attachments |-> <<>>],
    [to |-> "c@x.com", subject |-> Undefined, html |-> Undefined, text |-> "hi",
     from |-> Undefined, domain |-> Undefined, attachments |-> <<>>] }

\* the items of a batch: for a.com, for b.com, and one without a subject
BatchItems ==
  { [to |-> "a@x.com", subject |-> "Hi", html |-> "<p>hi</p>", text |-> Undefined,
     from |-> Undefined, domain |-> "a.com", attachments |-> <<>>],
    [to |-> "b@x.com", subject |-> "Hi", html |-> "<p>hi</p>", text |-> Undefined,
     from |-> "me@b.com", domain |-> Undefined, attachments |-> <<>>],
    [to |-> "c@x.com", subject |-> Undefined, html |-> Undefined, text |-> "hi",
     from |-> Undefined, domain |-> Undefined, attachments |-> <<>>] }

RECURSIVE Lists(_, _)
\* the sequences over S of length at most n
Lists(S, n) ==
  IF n = 0 THEN {<<>>}
  ELSE Lists(S, n - 1) \cup {Append(l, x) : l \in {m \in Lists(S, n - 1) : Len(m) = n - 1}, x \in S}

ProviderIds == {"re_1"}
ProviderErrors == {403, 422}
ProviderMessages == {Undefined, "Invalid to field"}

(***************************************************************************)
(* The credential resolver: what the claims compare a resolution with.     *)
(***************************************************************************)
\* the secret of the domain's active record in the store, if any
StoreSecret(d) ==
  IF pool /\ d \in DOMAIN api_keys /\ api_keys[d].is_active THEN api_keys[d].api_key
  ELSE Undefined

\* the static per-domain secret of the configuration, else the global default
StaticOrDefault(d) ==
  IF d \in DOMAIN ENV_API_KEYS /\ ENV_API_KEYS[d] \notin {Undefined, ""}
  THEN ENV_API_KEYS[d] ELSE RESEND_API_KEY

\* store record, else static secret, else default
Layered(d) == IF StoreSecret(d) \notin {Undefined, ""} THEN StoreSecret(d) ELSE StaticOrDefault(d)

\* this step is the return of call r
Returns(r) == res[r].pc # "done" /\ res'[r].pc = "done"

\* C1: the first resolution of a domain started after an admin write of that
\* domain completed (store written, cache cleared) returns what the store now
\* holds for it, whatever loads were in flight when the cache was cleared.
C1_NextResolutionSeesAdminWrite ==
  (ret.firstAfter /\ ret.how \in {"hit", "loaded"}) => ret.result = Layered(ToLower(ret.domain))

\* C16: once an admin update that set a domain's record inactive has
\* completed, a resolution of that domain started afterwards returns the
\* static per-domain value or the global default and never the secret of the
\* inactive record.
C16_InactiveNeverReturned ==
  (/\ ret.firstAfter
   /\ ToLower(ret.domain) \in DOMAIN api_keys
   /\ ~api_keys[ToLower(ret.domain)].is_active) =>
    /\ ret.result = StaticOrDefault(ToLower(ret.domain))
    /\ ret.result # api_keys[ToLower(ret.domain)].api_key

\* C2: a resolution whose store load fails returns the static per-domain value
\* or the global default, and the step leaves the cache mapping and its
\* loadedAt as they were.
C2_FailedLoadKeepsCache ==
  [][\A r \in Resolvers :
       (res[r].pc = "loaded" /\ res[r].snap = LoadError /\ Returns(r)) =>
         /\ ret'.how = "failed"
         /\ ret'.result = StaticOrDefault(ToLower(res[r].domain))
         /\ dbApiKeysCache' = dbApiKeysCache
         /\ dbApiKeysCacheTime' = dbApiKeysCacheTime]_vars

\* a failed load has returned while a mapping loaded earlier is still held
C2_Witness ==
  /\ ret.how = "failed"
  /\ dbApiKeysCache # NullCache
  /\ dbApiKeysCache # EmptyMap

\* C19: when the reload of an expired cache fails and the stale mapping holds
\* the requested domain, the resolution returns the stale cached secret; the
\* static mapping and the global default serve only a domain the stale
\* mapping lacks.
C19_StaleCacheServesOnFailedReload ==
  [][\A r \in Resolvers :
       ( /\ res[r].pc = "loaded" /\ res[r].snap = LoadError /\ Returns(r)
         /\ dbApiKeysCache # NullCache
         /\ res[r].now - dbApiKeysCacheTime > API_KEYS_CACHE_TTL ) =>
         ret'.result = LookupIn(dbApiKeysCache, ToLower(res[r].domain))]_vars

\* a resolution of a non-empty domain starts while a cache is present: it is
\* answered from the cache, or it goes to the store
StartsOnCache(r) ==
  /\ dbApiKeysCache # NullCache
  /\ res[r].pc = "idle"
  /\ \/ res'[r].pc = "loading"
     \/ res'[r].pc = "done" /\ ret'.how = "hit"

\* C20 as stated: a present cache is served without a store read exactly when
\* now - loadedAt < TTL; at age TTL and beyond the store is read first.
C20_ServedBelowTTL ==
  [][\A r \in Resolvers :
       StartsOnCache(r) =>
         (res'[r].pc = "done" <=> now - dbApiKeysCacheTime < API_KEYS_CACHE_TTL)]_vars

\* C20, amended: a present cache is served without a store read exactly when
\* now - loadedAt <= TTL; only at an age greater than TTL is the store read
\* first.
C20_ServedUpToTTL ==
  [][\A r \in Resolvers :
       StartsOnCache(r) =>
         (res'[r].pc = "done" <=> now - dbApiKeysCacheTime <= API_KEYS_CACHE_TTL)]_vars

\* a resolution was answered from a cache of age exactly TTL
C20_Witness ==
  /\ ret.how = "hit"
  /\ ret.age = API_KEYS_CACHE_TTL

\* C21: the cache is absent or is the complete mapping one store read
\* returned (the active records at that read): a store read delivers the
\* active records of that moment, and a step that changes the cache either
\* clears it or replaces it whole by the mapping of one such read; no step
\* adds, removes or changes a single key.
C21_CacheReplacedWholesale ==
  [][/\ \A r \in Resolvers :
          (res[r].pc = "loading" /\ res'[r].pc = "loaded" /\ res'[r].snap # LoadError) =>
            res'[r].snap = getApiKeysMap
     /\ \A r \in Resolvers :
          (res[r].pc = "loaded" /\ res[r].snap # LoadError /\ Returns(r)) =>
            dbApiKeysCache' = res[r].snap
     /\ dbApiKeysCache' # dbApiKeysCache =>
          \/ dbApiKeysCache' = NullCache
          \/ \E r \in Resolvers :
               /\ res[r].pc = "loaded" /\ res[r].snap # LoadError /\ Returns(r)
               /\ dbApiKeysCache' = res[r].snap]_vars

\* a load has filled the cache with the store's records after an admin write
C21_Witness ==
  /\ ret.how = "loaded"
  /\ adminOps > 0
  /\ dbApiKeysCache # NullCache
  /\ dbApiKeysCache # EmptyMap

\* the spellings of one domain, and calls without a domain
CaseInputs == {Undefined, "", "a.com", "A.COM"}

\* the domain a spelling stands for
Spelled(d) == IF d \in {"a.com", "A.COM"} THEN "a.com" ELSE d

\* the credential the layers hold for a domain: the mapping given, then the
\* static mapping, then the global default
LayersGive(map, domain) ==
  IF Truthy(Get(map, domain)) THEN map[domain]
  ELSE IF Truthy(Get(ENV_API_KEYS, domain)) THEN ENV_API_KEYS[domain]
  ELSE RESEND_API_KEY

\* C39: a resolution with a null or empty domain returns the global default
\* at once, with no store read, and leaves the cache and its loadedAt as they
\* are; and a resolution is case-insensitive: what it returns is what the
\* layers hold for the domain its argument spells, so that two spellings of
\* one domain resolved in the same state get the same credential.
C39_DefaultAndCaseInsensitive ==
  [][\A r \in Resolvers :
       /\ res'[r].pc \in {"loading", "loaded"} => Truthy(res'[r].domain)
       /\ (Returns(r) /\ ~Truthy(ret'.domain)) =>
            /\ res[r].pc = "idle"
            /\ ret'.result = RESEND_API_KEY
            /\ dbApiKeysCache' = dbApiKeysCache
            /\ dbApiKeysCacheTime' = dbApiKeysCacheTime
       /\ (Returns(r) /\ Truthy(ret'.domain)) =>
            ret'.result =
              CASE ret'.how = "hit" -> LayersGive(dbApiKeysCache, Spelled(ret'.domain))
                [] ret'.how = "loaded" -> LayersGive(res[r].snap, Spelled(ret'.domain))
                [] OTHER -> LayersGive(EmptyMap, Spelled(ret'.domain))]_vars

\* the upper-case spelling was answered from the cache with the credential
\* the store holds for the domain
C39_Witness ==
  /\ ret.domain = "A.COM"
  /\ ret.how = "hit"
  /\ ret.result = "key_db1"
  /\ dbApiKeysCache # NullCache
  /\ Get(dbApiKeysCache, "a.com") = "key_db1"

\* C40: loads are not coalesced: every resolution that finds the cache
\* absent or expired goes to the store with its own read, and each load that
\* succeeds puts its own mapping and its own start time in the cache,
\* whatever the cache holds by then; the load that finishes last wins, even
\* when it started first, and loadedAt then moves backwards.
C40_LastLoadWins ==
  [][\A r \in Resolvers :
       /\ (res[r].pc = "idle" /\ res'[r].pc = "done" /\ NeedsLoad(now)) =>
            ~Truthy(ret'.domain)
       /\ (res[r].pc = "idle" /\ res'[r].pc = "loading") =>
            /\ res'[r].now = now
            /\ \A q \in Resolvers \ {r} : res'[q] = res[q]
       /\ (res[r].pc = "loading" /\ res'[r].pc = "loaded") =>
            \A q \in Resolvers \ {r} : res'[q] = res[q]
       /\ (res[r].pc = "loaded" /\ res[r].snap # LoadError /\ Returns(r)) =>
            /\ dbApiKeysCache' = res[r].snap
            /\ dbApiKeysCacheTime' = res[r].now]_vars

\* a load that started before the clock moved finished after a load that
\* started later: loadedAt is back at the earlier start
C40_Witness ==
  /\ ret.how = "loaded"
  /\ ret.age < 0
  /\ dbApiKeysCacheTime = StartTime
  /\ now > StartTime
  /\ \A r \in Resolvers : res[r].pc = "done"

\* the domain is in none of the cache, the store and the static mapping, and
\* there is no global default
NoLayerHas(d) ==
  /\ RESEND_API_KEY = Undefined
  /\ dbApiKeysCache = NullCache \/ d \notin DOMAIN dbApiKeysCache
  /\ StoreSecret(d) = Undefined
  /\ d \notin DOMAIN ENV_API_KEYS \/ ENV_API_KEYS[d] = Undefined

\* the call that returned last was for such a domain
NoLayerHasReturned == Truthy(ret.domain) /\ NoLayerHas(ToLower(ret.domain))

C4_LayeredPriority ==
  (ret.undisturbed /\ Truthy(ret.domain) /\ ret.how \in {"hit", "loaded"}) =>
     ret.result = Layered(ToLower(ret.domain))


(***************************************************************************)
(* The outbound dispatcher.                                                *)
(***************************************************************************)
RECURSIVE SumTrueSizes(_, _)
SumTrueSizes(atts, i) ==
  IF i > Len(atts) THEN 0 ELSE TrueSize(atts[i]) + SumTrueSizes(atts, i + 1)

TenMiB == 10485760

\* a file decodes to more than 10 MiB, or the files together do
Oversized(atts) ==
  \/ \E i \in 1..Len(atts) : TrueSize(atts[i]) > TenMiB
  \/ SumTrueSizes(atts, 1) > TenMiB

\* the request has no recipient, no subject, or neither body
Lacks(body) ==
  \/ body.to = Undefined
  \/ body.subject = Undefined
  \/ body.html = Undefined /\ body.text = Undefined

\* the request was answered 400 and nothing else happened for it
RejectedUntouched ==
  /\ send.pc = "responded"
  /\ send.response.status = 400
  /\ res[1].pc = "idle"
  /\ providerCalls = <<>>
  /\ emails = <<>>

\* C6: a send with an attachment that decodes to more than 10 MiB, or whose
\* attachments decode to more than 10 MiB together, is answered 400 before any
\* credential resolution and provider call, and no Outbound Message is recorded.
C6_OversizedAttachmentRejected ==
  (send.pc # "idle" /\ Oversized(send.body.attachments)) => RejectedUntouched

\* an otherwise valid request was rejected for the total alone
C6_Witness ==
  /\ send.pc = "responded"
  /\ ~Lacks(send.body)
  /\ Oversized(send.body.attachments)
  /\ \A i \in 1..Len(send.body.attachments) : TrueSize(send.body.attachments[i]) <= TenMiB
  /\ send.response.status = 400

ExplicitDomainAccepted ==
  /\ send.pc = "responded"
  /\ ~Lacks(send.body)
  /\ send.body.domain # Undefined
  /\ send.body.from = Undefined
  /\ StoreSecret(ToLower(send.body.domain)) # Undefined
  /\ send.accepted

\* C10 as stated: such a send is recorded with domain = d, status = sent and
\* from = noreply@d (stated for the lower-case domains whose send was
\* answered 200).
C10_ExplicitDomainRecorded ==
  (ExplicitDomainAccepted /\ send.body.domain \in Dom /\ send.response.status = 200) =>
    \E i \in 1..Len(emails) :
      /\ emails[i].domain = send.body.domain
      /\ emails[i].status = "sent"
      /\ emails[i].from_email = "noreply@" \o send.body.domain

\* C10 amended: when d is a domain of the registry and the write of the record
\* does not fail, the send is recorded with domain = d, status = sent and
\* from = the registry's default sender of d.
C10_RegistryDomainRecorded ==
  (/\ ExplicitDomainAccepted
   /\ send.body.domain \in Registry
   /\ send.response.error # "store error") =>
    \E i \in 1..Len(emails) :
      /\ emails[i].domain = send.body.domain
      /\ emails[i].status = "sent"
      /\ emails[i].from_email = DEFAULT_SENDERS[send.body.domain]
      /\ emails[i].resend_id = send.resendId

\* such a send for the registry's second domain was recorded from noreply@b.com
C10_Witness ==
  /\ ExplicitDomainAccepted
  /\ send.body.domain = "b.com"
  /\ Len(emails) = 1
  /\ emails[1].domain = "b.com"
  /\ emails[1].from_email = "noreply@b.com"
  /\ emails[1].status = "sent"

\* C11: an Outbound Message exists only once the provider has accepted the
\* send, and then with status 'sent' and the provider's id; a send the
\* provider rejected is answered with the provider's status code and message
\* (the text 'Failed to send email' when the provider gave none) and leaves
\* no Outbound Message.
C11_RecordedOnlyAfterAcceptance ==
  /\ \A i \in 1..Len(emails) :
       /\ send.accepted
       /\ emails[i].status = "sent"
       /\ emails[i].resend_id = send.resendId
  /\ Len(emails) <= 1
  /\ send.providerStatus # 0 =>
       /\ send.pc = "responded"
       /\ ~send.accepted
       /\ send.response.status = send.providerStatus
       /\ send.response.success = FALSE
       /\ send.response.error = Or(send.providerMessage, "Failed to send email")
       /\ emails = <<>>

\* a send with a usable store that the provider rejected with 422 and a message
C11_Witness ==
  /\ pool
  /\ send.pc = "responded"
  /\ send.providerStatus = 422
  /\ Truthy(send.providerMessage)
  /\ send.response.status = 422
  /\ Len(providerCalls) = 1

\* the send asked for a credential and the resolution returned none
NoCredentialResolved ==
  /\ send.pc \notin {"idle", "resolving"}
  /\ ~MissingFields(send.body)
  /\ ~AttachmentsTooLarge(send.body.attachments)
  /\ ~Truthy(ret.result)

\* C12: a send whose credential resolution returned no credential is answered
\* with an error (500, not a success), the provider received no request for
\* it, and no Outbound Message is recorded.
C12_NoCredentialNoSend ==
  NoCredentialResolved =>
    /\ send.pc = "responded"
    /\ send.response.status = 500
    /\ send.response.success = FALSE
    /\ Truthy(send.response.error)
    /\ providerCalls = <<>>
    /\ emails = <<>>

\* a valid send for b.com answered after the store was read and neither the
\* store nor the configuration had a credential for it
C12_Witness ==
  /\ NoCredentialResolved
  /\ send.pc = "responded"
  /\ send.body.domain = "b.com"
  /\ ret.how = "loaded"
  /\ pool

\* the domain of the mailbox a sender names, "Name <local@domain>" included
DomainPart(address) ==
  CASE address \in {"noreply@a.com", "sales@a.com"} -> "a.com"
    [] address \in {"noreply@b.com", "me@b.com", "Acme <me@b.com>"} -> "b.com"
    [] OTHER -> Undefined

\* the (domain, sender) pair C13 gives for a request
SelectedPair(body) ==
  IF Truthy(body.from) THEN [domain |-> DomainPart(body.from), from |-> body.from]
  ELSE IF Truthy(body.domain) /\ body.domain \in Registry
    THEN [domain |-> body.domain, from |-> DEFAULT_SENDERS[body.domain]]
    ELSE [domain |-> EMAIL_DOMAIN, from |-> DEFAULT_FROM]

\* C13: the handler of a valid single send selects the pair (domain part of
\* the explicit sender, that sender), else (d, default sender of d) for an
\* explicit registry domain d, else (primary domain, its default sender), and
\* the Outbound Message it records carries this domain and this sender.
C13_SelectedPairRecorded ==
  (send.pc # "idle" /\ ~MissingFields(send.body)
     /\ ~AttachmentsTooLarge(send.body.attachments)) =>
    /\ send.domain = SelectedPair(send.body).domain
    /\ send.from = SelectedPair(send.body).from
    /\ \A i \in 1..Len(emails) :
         /\ emails[i].domain = SelectedPair(send.body).domain
         /\ emails[i].from_email = SelectedPair(send.body).from

\* C22: the credential a single send calls the provider with is the one
\* resolved for the selected domain, the domain the Outbound Message is
\* recorded under: whenever the provider was called, the resolution that gave
\* the credential was made for that domain (letter case aside); so too when
\* sender and explicit domain differ or the explicit domain is unregistered.
C22_CredentialOfSelectedDomain ==
  (send.pc \in {"fetching", "saving", "responded"} /\ Len(providerCalls) > 0) =>
    /\ Truthy(ret.domain) = Truthy(send.domain)
    /\ Truthy(ret.domain) => ToLower(ret.domain) = ToLower(send.domain)

\* C14: when the provider accepted a single send and the write of the
\* Outbound Message then failed, the response to the caller still reports
\* success (200, success = true).
C14_StoreFailureInvisible ==
  (send.pc = "responded" /\ send.accepted) =>
    /\ send.response.status = 200
    /\ send.response.success = TRUE

\* the domain whose credential sendEmail asks for
KeyDomain == ToLower(fromDomain([send.body EXCEPT !.from = send.from]))

ValidSend ==
  /\ send.pc # "idle"
  /\ ~MissingFields(send.body)
  /\ ~AttachmentsTooLarge(send.body.attachments)

\* C15: without a store connection no persistence operation does anything or
\* raises: no Outbound Message, log entry or Inbound Message exists, no
\* content fetch is scheduled, every webhook is acknowledged with 200 at
\* once, and a valid send for which a static or default credential exists
\* reaches the provider with that credential and, when the provider accepts,
\* reports success.
C15_NoStoreNoRecords ==
  ~pool =>
    /\ emails = <<>>
    /\ webhooks = <<>>
    /\ received_emails = <<>>
    /\ \A h \in Hooks :
         /\ fetchRun[h].pc = "none"
         /\ hook[h].pc \in {"idle", "responded"}
         /\ hook[h].pc = "responded" => hook[h].status = 200
    /\ send.pc # "saving"
    /\ send.response.error # "store error"
    /\ \A i \in 1..Len(providerCalls) : providerCalls[i].apiKey = StaticOrDefault(KeyDomain)
    /\ (ValidSend /\ send.pc = "responded" /\ Truthy(StaticOrDefault(KeyDomain))) =>
         Len(providerCalls) = 1
    /\ (send.pc = "responded" /\ send.accepted) =>
         send.response.status = 200 /\ send.response.success

\* without a store: a send for a.com accepted with the static credential and
\* answered 200, and a webhook acknowledged
C15_Witness ==
  /\ ~pool
  /\ send.pc = "responded"
  /\ send.accepted
  /\ send.response.status = 200
  /\ Len(providerCalls) = 1
  /\ providerCalls[1].apiKey = "key_env_a"
  /\ hook[1].pc = "responded"
  /\ hook[1].status = 200

(***************************************************************************)
(* The domain registry.                                                    *)
(***************************************************************************)
\* the list the registry is parsed from
ConfiguredList ==
  IF TruthyStr(processEnv.EMAIL_DOMAINS) THEN processEnv.EMAIL_DOMAINS
  ELSE processEnv.EMAIL_DOMAIN

\* the domains a list names, trimmed and lower-cased, in input order
Named(parts) == SelectSeq([i \in DOMAIN parts |-> TrimLower(parts[i])], LAMBDA d : d # "")

RECURSIVE FirstOccurrences(_)
\* a sequence without the repetitions of its earlier elements
FirstOccurrences(seq) ==
  IF seq = <<>> THEN <<>>
  ELSE LET front == FirstOccurrences(SubSeq(seq, 1, Len(seq) - 1))
           last == seq[Len(seq)]
       IN IF \E i \in DOMAIN front : front[i] = last THEN front ELSE Append(front, last)

\* C17: for a configured domain list the registry holds each named domain
\* trimmed and lower-cased, once, in the order of first occurrence.
C17_RegistryNormalised ==
  (processEnv.loaded /\ TruthyStr(ConfiguredList)) =>
    /\ EMAIL_DOMAINS = FirstOccurrences(Named(ConfiguredList.parts))
    /\ \A i, j \in DOMAIN EMAIL_DOMAINS : i # j => EMAIL_DOMAINS[i] # EMAIL_DOMAINS[j]

\* C18: the registry is never empty; a configuration that names no domain
\* (unset, empty, or only separators and blanks) gives the registry of the
\* built-in domain alone, and a primary domain and primary sender exist.
C18_RegistryNeverEmpty ==
  processEnv.loaded =>
    /\ Len(EMAIL_DOMAINS) >= 1
    /\ (~TruthyStr(ConfiguredList) \/ Named(ConfiguredList.parts) = <<>>) =>
         EMAIL_DOMAINS = <<"eternalgy.me">>
    /\ Truthy(EMAIL_DOMAIN)
    /\ Truthy(DEFAULT_FROM)

(***************************************************************************)
(* Batch sending.                                                          *)
(***************************************************************************)
\* the requests the provider received for item i
CallsOf(i) == {k \in DOMAIN providerCalls : providerCalls[k].item = i}

\* C5: the answer to a batch of N items has N results, result i is about
\* item i (index i, the provider's answer to item i as data), it is marked
\* failed exactly when the provider did not accept item i, and every item
\* that has a credential was sent to the provider once, whatever happened
\* to the other items and in whatever order the sends completed.
C5_BatchResultsPerItem ==
  (batch.pc = "responded" /\ batch.status = 200) =>
    /\ Len(batch.results) = Len(batch.emails)
    /\ \A i \in 1..Len(batch.emails) :
         /\ batch.results[i].index = i - 1
         /\ batch.results[i].success <=> (item[i].verdict = "accepted")
         /\ batch.results[i].success => batch.results[i].data = item[i].value
         /\ ~batch.results[i].success => batch.results[i].error = item[i].reason
         /\ Cardinality(CallsOf(i)) = IF Truthy(item[i].apiKey) THEN 1 ELSE 0
         /\ ~Truthy(item[i].apiKey) => item[i].reason = 500 /\ item[i].verdict = "none"

\* a batch answered after its second item was accepted first and its first
\* item was rejected by the provider afterwards
C5_Witness ==
  /\ batch.pc = "responded"
  /\ Len(batch.emails) >= 2
  /\ settledOrder[1] = 2
  /\ item[2].verdict = "accepted"
  /\ item[1].verdict = "rejected"
  /\ batch.results[1].success = FALSE
  /\ batch.results[2].success = TRUE

\* C23: the send preconditions hold per batch item: an item without
\* recipient, without subject, without both bodies, or with an oversized
\* attachment is never sent to the provider and is reported as failed.
C23_BatchItemsValidated ==
  \A i \in 1..Len(batch.emails) :
    (MissingFields(batch.emails[i]) \/ AttachmentsTooLarge(batch.emails[i].attachments)) =>
      /\ CallsOf(i) = {}
      /\ batch.pc = "responded" => ~batch.results[i].success

\* C24: every batch item the provider accepted is recorded as an Outbound
\* Message with status sent, as a single send is when the store is connected.
C24_AcceptedItemsRecorded ==
  (batch.pc = "responded" /\ pool) =>
    \A i \in 1..Len(batch.emails) :
      item[i].verdict = "accepted" =>
        \E e \in DOMAIN emails :
          /\ emails[e].resend_id = item[i].value
          /\ emails[e].to_email = batch.emails[i].to
          /\ emails[e].status = "sent"

\* C25: sendBatch has started the send of every item before it waits for any
\* of them, and the result and the response exist only once every item has
\* settled, in whatever order the sends completed.
C25_FanOutThenJoin ==
  /\ batch.pc = "waiting" =>
       \A i \in 1..Len(batch.emails) : item[i].pc # "none"
  /\ (Len(providerCalls) > 0 \/ Len(settledOrder) > 0) =>
       \A i \in 1..Len(batch.emails) : item[i].pc # "none"
  /\ (batch.pc = "responded" /\ batch.status = 200) =>
       /\ \A i \in 1..Len(batch.emails) : item[i].pc \in {"fulfilled", "rejected"}
       /\ Len(settledOrder) = Len(batch.emails)
       /\ Len(batch.results) = Len(batch.emails)

\* a batch of two answered after its sends completed in reverse order
C25_Witness ==
  /\ batch.pc = "responded"
  /\ batch.status = 200
  /\ settledOrder = <<2, 1>>

(***************************************************************************)
(* Inbound messages.                                                       *)
(***************************************************************************)
RowsOf(id) == {k \in DOMAIN received_emails : received_emails[k].email_id = id}

StubFields(row) ==
  [from |-> row.from_email, to |-> row.to_email, subject |-> row.subject,
   domain |-> row.domain, attachments |-> row.attachments]

\* every request received has been answered
Quiet == \A h \in Hooks : hook[h].pc \in {"idle", "responded"}

\* C8 as stated: once the arrivals are handled, a configured store holds
\* exactly one Inbound Message per provider message id that arrived, with the
\* stub fields of the first notification that arrived for that id.
C8_FirstArrivalStored ==
  (pool /\ Quiet) =>
    \A id \in DOMAIN firstArrival :
      /\ Cardinality(RowsOf(id)) = 1
      /\ \A k \in RowsOf(id) :
           StubFields(received_emails[k])
             = StubFields(StubRow(StubData(firstArrival[id].data)))

\* C8, amended: at every moment the store holds one Inbound Message for each
\* provider message id for which it has applied a stub write and none for any
\* other id, and the stub fields of that message are those of the first stub
\* write applied for the id: later arrivals and content updates leave them.
C8_FirstWriteStored ==
  /\ \A k \in DOMAIN received_emails : received_emails[k].email_id \in DOMAIN firstWrite
  /\ \A id \in DOMAIN firstWrite :
       /\ Cardinality(RowsOf(id)) = 1
       /\ \A k \in RowsOf(id) :
            StubFields(received_emails[k]) = StubFields(firstWrite[id])

\* two notifications for in_1 with different fields were both acknowledged
\* with 200 and the store holds one message for in_1
C8_Witness ==
  /\ arrivals = 2
  /\ \A h \in Hooks : /\ hook[h].pc = "responded"
                      /\ hook[h].status = 200
                      /\ hook[h].body.data.email_id = "in_1"
  /\ hook[1].body # hook[2].body
  /\ Cardinality(RowsOf("in_1")) = 1

\* the run in place h got the message from the provider at its third attempt
ThirdAttemptSucceeded(h) == fetchRun[h].fullEmail # NoContent /\ fetchRun[h].i = 2

\* the run in place h has used up its attempts
AllAttemptsFailed(h) == fetchRun[h].pc = "failed" /\ fetchRun[h].fullEmail = NoContent

\* the message id has the body fields the provider returned
Populated(id, content) ==
  /\ RowsOf(id) # {}
  /\ \A k \in RowsOf(id) :
       /\ content.html # Undefined => received_emails[k].html_content = content.html
       /\ content.text # Undefined => received_emails[k].text_content = content.text
       /\ received_emails[k].html_content # Null \/ received_emails[k].text_content # Null

BodyNull(id) ==
  \A k \in RowsOf(id) :
    received_emails[k].html_content = Null /\ received_emails[k].text_content = Null

\* what C9 says of the attempts and of a run whose attempts all failed: at
\* most 3 attempts, no attempt after a success, the error of the last (third)
\* attempt raised, and a stub that no run has filled still has null body fields
RetryDiscipline(h) ==
  /\ fetchRun[h].i <= retries
  /\ fetchRun[h].calls <= fetchRun[h].i + 1
  /\ fetchRun[h].calls <= retries
  /\ fetchRun[h].fullEmail # NoContent =>
       /\ fetchRun[h].pc \in {"updating", "done", "failed"}
       /\ fetchRun[h].i < retries
  /\ AllAttemptsFailed(h) =>
       /\ fetchRun[h].i = retries
       /\ fetchRun[h].raised = fetchRun[h].lastError
       /\ fetchRun[h].raised.attempt = retries
       /\ Count(contentWrites, fetchRun[h].emailId) = 0 => BodyNull(fetchRun[h].emailId)

\* C9 as stated: the discipline above, and a run whose third attempt
\* succeeded ends with the body fields of the message populated and no error.
C9_ThirdSuccessPopulates ==
  \A h \in Hooks :
    /\ RetryDiscipline(h)
    /\ (ThirdAttemptSucceeded(h) /\ fetchRun[h].pc \in {"done", "failed"}) =>
         /\ Populated(fetchRun[h].emailId, fetchRun[h].fullEmail)
         /\ fetchRun[h].raised = NoError

\* C9, amended: the discipline above, and a run whose third attempt succeeded
\* ends, when the store applies the update, with the body fields of the
\* message populated and no error; when the store rejects the update the only
\* error is the store's.
C9_ThirdSuccessPopulatesIfStored ==
  \A h \in Hooks :
    /\ RetryDiscipline(h)
    /\ (ThirdAttemptSucceeded(h) /\ fetchRun[h].pc = "done") =>
         /\ Populated(fetchRun[h].emailId, fetchRun[h].fullEmail)
         /\ fetchRun[h].raised = NoError
    /\ (ThirdAttemptSucceeded(h) /\ fetchRun[h].pc = "failed") =>
         fetchRun[h].raised.kind = "store"

\* one run ended populated after two failed attempts and a success, another
\* ended after three failed attempts
C9_Witness ==
  /\ fetchRun[1].pc = "done"
  /\ fetchRun[1].i = 2
  /\ fetchRun[1].calls = 3
  /\ Populated(fetchRun[1].emailId, fetchRun[1].fullEmail)
  /\ AllAttemptsFailed(2)
  /\ fetchRun[2].i = retries

\* C26: in the handling of an arrival the stub write completes before the
\* content fetch is scheduled, and a stub write that raised schedules none:
\* where a fetch exists the store holds the message it is for, and a request
\* answered 500 has no fetch.
C26_StubBeforeFetch ==
  \A h \in Hooks :
    /\ fetchRun[h].pc # "none" => HasRow(received_emails, fetchRun[h].emailId)
    /\ (hook[h].pc = "responded" /\ hook[h].status = 500) => fetchRun[h].pc = "none"

\* one arrival was stored and has its fetch scheduled; the stub write of the
\* next one raised after its event was logged, and it has no fetch
C26_Witness ==
  /\ fetchRun[1].pc = "scheduled"
  /\ HasRow(received_emails, fetchRun[1].emailId)
  /\ Len(webhooks) = 2
  /\ hook[2].pc = "responded"
  /\ hook[2].status = 500
  /\ fetchRun[2].pc = "none"

\* C27: the response to an arrival does not wait for the content fetch:
\* wherever a fetch exists, scheduled, attempting, succeeded or failed, the
\* request that scheduled it has already been answered, with 200.
C27_ResponseBeforeFetch ==
  \A h \in Hooks :
    fetchRun[h].pc # "none" => hook[h].pc = "responded" /\ hook[h].status = 200

\* one fetch still waits for its first attempt, another has failed for good,
\* and both requests have been answered with 200
C27_Witness ==
  /\ fetchRun[1].pc = "failed"
  /\ fetchRun[2].pc = "scheduled"
  /\ fetchRun[2].i = 0
  /\ \A h \in Hooks : hook[h].pc = "responded" /\ hook[h].status = 200

\* the fetch run of place h is under way
Fetching(h) == fetchRun[h].pc \in {"scheduled", "running", "updating"}

\* the next step of the fetch run of place h: the timer or the backoff sleep
\* is over and the attempt gets its answer, or the store answers the update
FetchStep(h) ==
  \/ \E ok \in BOOLEAN : FetchAttemptNoKey(h, ok)
  \/ \E ok \in BOOLEAN : FetchAttemptFails(h, ok)
  \/ \E ok \in BOOLEAN, c \in Contents : FetchAttemptSucceeds(h, ok, c)
  \/ UpdateReceivedDone(h)
  \/ UpdateReceivedFails(h)

\* C28: a content-fetch run that has started terminates, with a success or
\* with its attempts used up, as long as every call it makes returns or
\* fails; and no step takes a run that is under way back or away: the
\* request that scheduled it, already answered, does not cancel it.
C28_FetchRunsToCompletion ==
  /\ \A h \in Hooks : Fetching(h) ~> fetchRun[h].pc \in {"done", "failed"}
  /\ [][\A h \in Hooks :
          Fetching(h) => /\ fetchRun'[h].pc # "none"
                         /\ fetchRun'[h].emailId = fetchRun[h].emailId
                         /\ fetchRun'[h].i >= fetchRun[h].i]_vars

\* a run ended with its attempts used up, and another ended with a success
\* at its last attempt, both after their requests were answered
C28_Witness ==
  /\ fetchRun[1].pc = "failed"
  /\ fetchRun[1].i = retries
  /\ fetchRun[2].pc = "done"
  /\ fetchRun[2].i = retries - 1
  /\ \A h \in Hooks : hook[h].pc = "responded"

\* C29: a configuration error is not retried: once an attempt of a content
\* fetch found no credential for the message's domain, the run has failed,
\* at that attempt, with no further attempt and no request to the provider
\* for it.
C29_NoCredentialNotRetried ==
  \A h \in Hooks :
    fetchRun[h].lastError.kind = "nokey" =>
      /\ fetchRun[h].pc = "failed"
      /\ fetchRun[h].i = fetchRun[h].lastError.attempt
      /\ fetchRun[h].lastError.attempt = 1 => fetchRun[h].calls = 0

\* the content fields of a stored message
ContentOf(row) == <<row.html_content, row.text_content>>

\* C30: the content fields of a stored Inbound Message change only when a
\* content fetch, automatic or manual, has succeeded and writes what it
\* fetched; arrivals and their duplicates, delivery-status events, failed
\* fetches and admin operations leave them as they are, and a message is
\* stored with both fields empty.
C30_ContentOnlyByFetch ==
  [][/\ Len(received_emails') >= Len(received_emails)
     /\ \A k \in DOMAIN received_emails' :
          IF k \in DOMAIN received_emails
            THEN /\ received_emails'[k].email_id = received_emails[k].email_id
                 /\ ContentOf(received_emails'[k]) # ContentOf(received_emails[k]) =>
                      \E h \in Hooks :
                        /\ fetchRun[h].pc = "updating" /\ fetchRun'[h].pc = "done"
                        /\ fetchRun[h].emailId = received_emails[k].email_id
                        /\ fetchRun[h].calls >= 1
                        /\ received_emails' =
                             updateReceivedEmail(fetchRun[h].emailId, fetchRun[h].fullEmail)
            ELSE ContentOf(received_emails'[k]) = <<Null, Null>>]_vars

\* the message in_1 has its text from a fetch that is over, and a later
\* arrival of in_1, handled in the same place, has been stored and answered
\* since, its own fetch not yet attempted
C30_Witness ==
  /\ arrivals = 2
  /\ hook[2].pc = "idle"
  /\ hook[1].pc = "responded"
  /\ hook[1].status = 200
  /\ hook[1].body.type = "email.received"
  /\ fetchRun[1].pc = "scheduled"
  /\ RowsOf("in_1") # {}
  /\ \A k \in RowsOf("in_1") : received_emails[k].text_content = "body"

\* C31: without manual re-fetches the body fields of an Inbound Message are
\* written at most once, however many arrival notifications come in: a
\* duplicate arrival for a stored id brings no further content write.
C31_ContentWrittenOnce ==
  \A id \in DOMAIN contentWrites : contentWrites[id] <= 1

\* the state of a stored message: received while both body fields are null
MessageState(row) ==
  IF row.html_content = Null /\ row.text_content = Null THEN "received"
  ELSE "content-fetched"

\* the fetch run of place h ends in this step without having written
EndsFailed(h) == fetchRun[h].pc \notin {"none", "failed"} /\ fetchRun'[h].pc = "failed"

\* C32: an Inbound Message is created in received, leaves received only
\* through a content fetch that succeeded, is still in received when a
\* fetch run for it has failed, and once content-fetched stays so.
C32_TwoStateMachine ==
  [][\A k \in DOMAIN received_emails' :
       IF k \notin DOMAIN received_emails
         THEN MessageState(received_emails'[k]) = "received"
         ELSE LET old == MessageState(received_emails[k])
                  new == MessageState(received_emails'[k])
              IN /\ old = "content-fetched" => new = "content-fetched"
                 /\ (old = "received" /\ new = "content-fetched") =>
                      \E h \in Hooks :
                        /\ fetchRun[h].pc = "updating" /\ fetchRun'[h].pc = "done"
                        /\ fetchRun[h].emailId = received_emails[k].email_id
                        /\ fetchRun[h].fullEmail \in Contents
                 /\ (\E h \in Hooks :
                       EndsFailed(h) /\ fetchRun[h].emailId = received_emails[k].email_id) =>
                      new = old]_vars

\* one fetch run for in_1 has failed for good, another one has succeeded,
\* and the message is content-fetched
C32_Witness ==
  /\ fetchRun[1].pc = "failed"
  /\ fetchRun[1].emailId = "in_1"
  /\ fetchRun[2].pc = "done"
  /\ fetchRun[2].emailId = "in_1"
  /\ \A k \in RowsOf("in_1") : MessageState(received_emails[k]) = "content-fetched"
  /\ RowsOf("in_1") # {}

\* the resolver under concurrent admin writes
SpecCred ==
  /\ Init
  /\ [][\/ \E r \in Resolvers, din \in DomainInputs : ResolveStart(r, din) /\ UNCHANGED <<sendVars, batchVars, inboundVars>>
        \/ \E r \in Resolvers, ok \in BOOLEAN : StoreRead(r, ok) /\ UNCHANGED <<sendVars, batchVars, inboundVars>>
        \/ \E r \in Resolvers : LoadSuccess(r) /\ UNCHANGED <<sendVars, batchVars, inboundVars>>
        \/ \E r \in Resolvers : LoadFailure(r) /\ UNCHANGED <<sendVars, batchVars, inboundVars>>
        \/ \E din \in AdminDomains, k \in PostKeys : PostApiKey(din, k) /\ UNCHANGED <<sendVars, batchVars, inboundVars>>
        \/ \E d \in Dom, u \in Updates : PatchApiKey(d, u) /\ UNCHANGED <<sendVars, batchVars, inboundVars>>
        \/ \E d \in Dom : DeleteApiKey(d) /\ UNCHANGED <<sendVars, batchVars, inboundVars>>
        \/ AdminClear /\ UNCHANGED <<sendVars, batchVars, inboundVars>>]_vars

\* the resolver as time passes
SpecTTL ==
  /\ Init
  /\ [][\/ \E r \in Resolvers, din \in DomainInputs : ResolveStart(r, din) /\ UNCHANGED <<sendVars, batchVars, inboundVars>>
        \/ \E r \in Resolvers, ok \in BOOLEAN : StoreRead(r, ok) /\ UNCHANGED <<sendVars, batchVars, inboundVars>>
        \/ \E r \in Resolvers : LoadSuccess(r) /\ UNCHANGED <<sendVars, batchVars, inboundVars>>
        \/ \E r \in Resolvers : LoadFailure(r) /\ UNCHANGED <<sendVars, batchVars, inboundVars>>
        \/ \E delta \in TickSteps : Tick(delta) /\ UNCHANGED <<sendVars, batchVars, inboundVars>>]_vars

\* one request to POST /send
SpecSend ==
  /\ InitDispatch
  /\ [][\/ \E body \in Bodies : SendBegin(body)
        \/ \E ok \in BOOLEAN : StoreRead(1, ok) /\ UNCHANGED <<sendVars, batchVars, inboundVars>>
        \/ LoadSuccess(1) /\ UNCHANGED <<sendVars, batchVars, inboundVars>>
        \/ LoadFailure(1) /\ UNCHANGED <<sendVars, batchVars, inboundVars>>
        \/ SendResolved
        \/ \E id \in ProviderIds : ProviderAccepts(id)
        \/ \E status \in ProviderErrors, m \in ProviderMessages : ProviderRejects(status, m)
        \/ SaveEmailDone
        \/ SaveEmailFails]_vars

\* one request to POST /send-batch
SpecBatch ==
  /\ InitBatchSend
  /\ [][\/ BatchNotArray
        \/ \E list \in Lists(BatchItems, MaxBatch) : BatchBegin(list)
        \/ \E i \in 1..MaxBatch, ok \in BOOLEAN : ItemResolved(i, ok)
        \/ \E i \in 1..MaxBatch, id \in ProviderIds : ItemAccepted(i, id)
        \/ \E i \in 1..MaxBatch, status \in ProviderErrors : ItemRejected(i, status)
        \/ BatchJoin]_vars

\* webhook requests and the content fetches they schedule
SpecInbound ==
  /\ InitReceive
  /\ [][\/ \E h \in Hooks, body \in Notifications : WebhookArrives(h, body)
        \/ \E h \in Hooks : SaveWebhookDone(h)
        \/ \E h \in Hooks : SaveWebhookFails(h)
        \/ \E h \in Hooks : SaveReceivedDone(h)
        \/ \E h \in Hooks : SaveReceivedFails(h)
        \/ \E h \in Hooks, ok \in BOOLEAN : FetchAttemptNoKey(h, ok)
        \/ \E h \in Hooks, ok \in BOOLEAN : FetchAttemptFails(h, ok)
        \/ \E h \in Hooks, ok \in BOOLEAN, c \in Contents : FetchAttemptSucceeds(h, ok, c)
        \/ \E h \in Hooks : UpdateReceivedDone(h)
        \/ \E h \in Hooks : UpdateReceivedFails(h)]_vars

\* one request to POST /send and webhook requests, with and without a store
SpecGateway ==
  /\ Init
  /\ [][\/ \E body \in GatewayBodies : SendBegin(body)
        \/ \E ok \in BOOLEAN : StoreRead(1, ok) /\ UNCHANGED <<sendVars, batchVars, inboundVars>>
        \/ LoadSuccess(1) /\ UNCHANGED <<sendVars, batchVars, inboundVars>>
        \/ LoadFailure(1) /\ UNCHANGED <<sendVars, batchVars, inboundVars>>
        \/ SendResolved
        \/ \E id \in ProviderIds : ProviderAccepts(id)
        \/ \E status \in ProviderErrors, m \in ProviderMessages : ProviderRejects(status, m)
        \/ SaveEmailDone
        \/ SaveEmailFails
        \/ \E h \in Hooks, body \in Notifications : WebhookArrives(h, body)
        \/ \E h \in Hooks : SaveWebhookDone(h)
        \/ \E h \in Hooks : SaveWebhookFails(h)
        \/ \E h \in Hooks : SaveReceivedDone(h)
        \/ \E h \in Hooks : SaveReceivedFails(h)]_vars

\* the evaluation of config.js
SpecConfig == InitConfig /\ [][LoadConfig]_vars

\* arrivals of one message and their fetch runs, when every call of a fetch
\* run returns or fails
SpecInboundFair ==
  /\ InitReceive
  /\ [][\/ \E h \in Hooks, body \in Redeliveries : WebhookArrives(h, body)
        \/ \E h \in Hooks : SaveWebhookDone(h)
        \/ \E h \in Hooks : SaveWebhookFails(h)
        \/ \E h \in Hooks : SaveReceivedDone(h)
        \/ \E h \in Hooks : SaveReceivedFails(h)
        \/ \E h \in Hooks, ok \in BOOLEAN : FetchAttemptNoKey(h, ok)
        \/ \E h \in Hooks, ok \in BOOLEAN : FetchAttemptFails(h, ok)
        \/ \E h \in Hooks, ok \in BOOLEAN, c \in Contents : FetchAttemptSucceeds(h, ok, c)
        \/ \E h \in Hooks : UpdateReceivedDone(h)
        \/ \E h \in Hooks : UpdateReceivedFails(h)]_vars
  /\ \A h \in Hooks : WF_vars(FetchStep(h))

\* everything that happens around a stored message: arrivals, status events,
\* automatic and manual fetches, and the deletion of a credential
SpecContent ==
  /\ InitReceive
  /\ [][\/ \E h \in Hooks, body \in ContentEvents : WebhookArrives(h, body)
        \/ \E h \in Hooks : SaveWebhookDone(h)
        \/ \E h \in Hooks : SaveWebhookFails(h)
        \/ \E h \in Hooks : UpdateStatusDone(h)
        \/ \E h \in Hooks : UpdateStatusFails(h)
        \/ \E h \in Hooks : SaveReceivedDone(h)
        \/ \E h \in Hooks : SaveReceivedFails(h)
        \/ \E h \in Hooks, id \in ManualIds : ManualFetchBegin(h, id)
        \/ \E h \in Hooks : ManualLookupDone(h)
        \/ \E h \in Hooks : ManualLookupFails(h)
        \/ \E h \in Hooks : ManualFetchResponds(h)
        \/ \E h \in Hooks, ok \in BOOLEAN : FetchAttemptNoKey(h, ok)
        \/ \E h \in Hooks, ok \in BOOLEAN : FetchAttemptFails(h, ok)
        \/ \E h \in Hooks, ok \in BOOLEAN, c \in Contents : FetchAttemptSucceeds(h, ok, c)
        \/ \E h \in Hooks : UpdateReceivedDone(h)
        \/ \E h \in Hooks : UpdateReceivedFails(h)
        \/ \E d \in Dom : DeleteApiKey(d) /\ UNCHANGED <<sendVars, batchVars, inboundVars>>
        \/ AdminClear /\ UNCHANGED <<sendVars, batchVars, inboundVars>>]_vars

\* resolutions of the spellings of one domain and of no domain
SpecResolve ==
  /\ Init
  /\ [][\/ \E r \in Resolvers, din \in CaseInputs : ResolveStart(r, din) /\ UNCHANGED <<sendVars, batchVars, inboundVars>>
        \/ \E r \in Resolvers, ok \in BOOLEAN : StoreRead(r, ok) /\ UNCHANGED <<sendVars, batchVars, inboundVars>>
        \/ \E r \in Resolvers : LoadSuccess(r) /\ UNCHANGED <<sendVars, batchVars, inboundVars>>
        \/ \E r \in Resolvers : LoadFailure(r) /\ UNCHANGED <<sendVars, batchVars, inboundVars>>]_vars

\* a process whose store, when it has one, holds the record of an earlier send
InitStatus ==
  /\ ProcessConfigured({<<"a.com">>}, {EmptyMap}, {OneRegistered})
  /\ send = IdleSend
  /\ providerCalls = <<>>
  /\ emails = IF pool THEN <<EarlierMessage>> ELSE <<>>
  /\ InitBatch
  /\ InitInbound

\* one send, and the provider's notifications about it and about an earlier
\* message, together with an arrival
SpecStatus ==
  /\ InitStatus
  /\ [][\/ \E body \in StatusBodies : SendBegin(body)
        \/ \E ok \in BOOLEAN : StoreRead(1, ok) /\ UNCHANGED <<sendVars, batchVars, inboundVars>>
        \/ LoadSuccess(1) /\ UNCHANGED <<sendVars, batchVars, inboundVars>>
        \/ LoadFailure(1) /\ UNCHANGED <<sendVars, batchVars, inboundVars>>
        \/ SendResolved
        \/ \E id \in ProviderIds : ProviderAccepts(id)
        \/ \E status \in ProviderErrors, m \in ProviderMessages : ProviderRejects(status, m)
        \/ SaveEmailDone
        \/ SaveEmailFails
        \/ \E h \in Hooks, body \in StatusEvents : ProviderNotifies(h, body)
        \/ \E h \in Hooks, body \in Redeliveries : WebhookArrives(h, body)
        \/ \E h \in Hooks : SaveWebhookDone(h)
        \/ \E h \in Hooks : SaveWebhookFails(h)
        \/ \E h \in Hooks : UpdateStatusDone(h)
        \/ \E h \in Hooks : UpdateStatusFails(h)
        \/ \E h \in Hooks : SaveReceivedDone(h)
        \/ \E h \in Hooks : SaveReceivedFails(h)]_vars

\* ---- delivery-status notifications ----

\* the notification of handler h is of one of the six delivery-status types
\* and names a provider message id
IsStatusNotification(h) ==
  /\ hook[h].body.type \in {"email.sent", "email.delivered", "email.bounced",
                            "email.complained", "email.opened", "email.clicked"}
  /\ Truthy(hook[h].body.data.email_id)

\* the notification of handler h is of a type the handler does not know
IsUnknownNotification(h) ==
  /\ hook[h].body.type \notin {"email.sent", "email.delivered", "email.bounced",
                               "email.complained", "email.opened", "email.clicked",
                               "email.received"}

\* handler h is at work in this state and has answered in the next
Completes(h) == hook[h].pc \in {"logging", "status"} /\ hook'[h].pc = "responded"

\* the step gives the Outbound Messages with the id of h's notification the
\* notified status and the timestamp of the notified type, and leaves their
\* other fields and every other Outbound Message as they were
StatusApplied(h) ==
  LET m == hook[h].body.data.email_id
      type == hook[h].body.type
  IN /\ DOMAIN emails' = DOMAIN emails
     /\ \A k \in DOMAIN emails :
          IF emails[k].resend_id # m THEN emails'[k] = emails[k]
          ELSE /\ emails'[k].status = statusMap(type)
               /\ emails'[k].delivered_at =
                    IF type = "email.delivered" THEN now ELSE emails[k].delivered_at
               /\ emails'[k].opened_at =
                    IF type = "email.opened" THEN now ELSE emails[k].opened_at
               /\ emails'[k].clicked_at =
                    IF type = "email.clicked" THEN now ELSE emails[k].clicked_at
               /\ \A f \in {"resend_id", "domain", "from_email", "to_email", "subject"} :
                    emails'[k][f] = emails[k][f]

\* the step only adds the entry of h's notification to the event log
OnlyLogged(h) ==
  /\ emails' = emails
  /\ received_emails' = received_emails
  /\ webhooks' = Append(webhooks, [event_type |-> hook[h].body.type,
                                   email_id |-> hook[h].body.data.email_id])

StatusRank(status) ==
  CASE status = "sent" -> 1
    [] status \in {"delivered", "bounced"} -> 2
    [] status \in {"opened", "complained"} -> 3
    [] status = "clicked" -> 4
    [] OTHER -> 0

\* C34: the status of an Outbound Message only progresses forward: no step
\* moves it from a later status back to an earlier one
C34_StatusOnlyForward ==
  [][\A k \in DOMAIN emails :
       k \in DOMAIN emails' => StatusRank(emails'[k].status) >= StatusRank(emails[k].status)]_vars

\* handler h's status update is applied in this step
UpdateApplied(h) ==
  hook[h].pc = "status" /\ hook'[h].pc = "responded" /\ hook'[h].status = 200

\* C35: status updates are last-write-wins: every status update that is
\* applied for a recorded provider message id leaves the Outbound Message
\* with the status of its notification, whatever the status was before, and
\* the status changes in no other step; so the status is that of the update
\* applied last
C35_LastWriteWins ==
  [][/\ \A h \in Hooks :
          UpdateApplied(h) =>
            \A k \in DOMAIN emails :
              emails[k].resend_id = hook[h].body.data.email_id
                => emails'[k].status = statusMap(hook[h].body.type)
     /\ \A k \in DOMAIN emails :
          (k \in DOMAIN emails' /\ emails'[k].status # emails[k].status)
            => \E h \in Hooks : /\ UpdateApplied(h)
                                /\ emails[k].resend_id = hook[h].body.data.email_id]_vars

\* C35 witness: a 'sent' update was applied to a message after a 'delivered'
\* update: the message is 'sent' again and keeps its delivery time
C35_Witness ==
  \E k \in DOMAIN emails :
    /\ emails[k].status = "sent"
    /\ emails[k].delivered_at # NoTime
    /\ \E h, g \in Hooks :
         /\ hook[h].pc = "responded" /\ hook[h].status = 200
         /\ hook[g].pc = "responded" /\ hook[g].status = 200
         /\ hook[h].body.type = "email.sent" /\ hook[g].body.type = "email.delivered"
         /\ hook[h].body.data.email_id = emails[k].resend_id
         /\ hook[g].body.data.email_id = emails[k].resend_id

\* C36: with a store, once the handler of an accepted send (id m) has
\* answered 200 and the handler of the one delivery-status webhook for m,
\* which arrived after the acceptance, has answered 200, the Outbound
\* Message for m exists and has the notified status
C36_NotificationNotLost ==
  \A h \in Hooks :
    ( /\ pool
      /\ send.pc = "responded" /\ send.response.status = 200 /\ send.accepted
      /\ hook[h].pc = "responded" /\ hook[h].status = 200
      /\ IsStatusNotification(h)
      /\ hook[h].body.data.email_id = send.resendId
      /\ \A g \in Hooks \ {h} :
           hook[g].pc = "idle" \/ hook[g].body.data.email_id # send.resendId )
    => \E k \in DOMAIN emails :
         /\ emails[k].resend_id = send.resendId
         /\ emails[k].status = statusMap(hook[h].body.type)

\* ---- the event log ----

\* the entry saveWebhook writes for the notification of handler h
EntryOf(h) == [event_type |-> hook[h].body.type, email_id |-> hook[h].body.data.email_id]

\* handler h's call of saveWebhook is over in this step
LeavesLogging(h) == hook[h].pc = "logging" /\ hook'[h].pc # "logging"

\* the log is kept as it is, or is given one more entry at its end
LogOnlyGrows ==
  /\ Len(webhooks') \in {Len(webhooks), Len(webhooks) + 1}
  /\ \A e \in DOMAIN webhooks : webhooks'[e] = webhooks[e]

\* the handlers come to their writes of messages from the logging step only
MessagesAfterLogging ==
  \A h \in Hooks :
    (hook'[h].pc \in {"status", "saving"} /\ hook[h].pc # hook'[h].pc) => hook[h].pc = "logging"

FixedFields == {"resend_id", "domain", "from_email", "to_email", "subject"}

\* C38: a step adds at most one Outbound Message, and only as the record of
\* a send the provider accepted, with that send's id and status 'sent'; an
\* existing Outbound Message changes only in status and timestamps and only
\* in a status update for its id; no Outbound or Inbound Message is removed
C38_MessagesCreatedBySendOnly ==
  [][/\ Len(emails') >= Len(emails)
     /\ Len(emails') > Len(emails) =>
          /\ send.pc = "saving" /\ send.accepted
          /\ send'.pc = "responded" /\ send'.response.status = 200
          /\ Len(emails') = Len(emails) + 1
          /\ emails'[Len(emails')].resend_id = send.resendId
          /\ emails'[Len(emails')].status = "sent"
     /\ \A k \in DOMAIN emails :
          /\ \A f \in FixedFields : emails'[k][f] = emails[k][f]
          /\ emails'[k] # emails[k] =>
               \E h \in Hooks : /\ UpdateApplied(h)
                                /\ hook[h].body.data.email_id = emails[k].resend_id
     /\ Len(received_emails') >= Len(received_emails)
     /\ \A k \in DOMAIN received_emails :
          received_emails'[k].email_id = received_emails[k].email_id]_vars

\* C38 witness: the record of an earlier send has been changed by a status
\* webhook, the record of the accepted send has been added after it, and an
\* Inbound Message is stored
C38_Witness ==
  /\ Len(emails) = 2
  /\ emails[1].resend_id = "re_0" /\ emails[1].status = "delivered"
  /\ send.pc = "responded" /\ send.accepted
  /\ emails[2].resend_id = send.resendId /\ emails[2].status = "sent"
  /\ Len(received_emails) = 1

====
